---- MODULE Spec2Model ----
(***************************************************************************)
(* Model of the Resonance discovery backend's shared on-disk state:        *)
(* the lock-guarded queue file (discovery/shared/queue.py), the wishlist   *)
(* file (discovery/shared/wishlist.py) and the producers that use them     *)
(* (discovery/lb_fetch.py, discovery/catalog_discovery.py).                *)
(*                                                                         *)
(* Nineteen specifications share the definitions below:                    *)
(*   Spec       independent OS processes calling the queue operations,     *)
(*              each call broken at its I/O boundaries (exists check,      *)
(*              creation, flock, read, body, truncate + buffered dump,     *)
(*              LOCK_UN, close)                                            *)
(*   FairSpec   Spec with weak fairness of every process's steps           *)
(*   SeqSpec    one process calling the queue operations in turn           *)
(*   DamageSpec SeqSpec with the file damaged from outside between calls   *)
(*   ProdSpec   the producers' runs (catalog_discovery.main, lb_fetch.main *)
(*              in manual mode) and the API's approve and reject requests, *)
(*              each locked block taken as one step                        *)
(*   DrainSpec  the producers' runs on a queue file that holds approved    *)
(*              items, no run killed and no request of the API             *)
(*   ApproveAllSpec  one QueueManager.approve_all request                  *)
(*   TextSpec   append_to_wishlist or process_approved_to_wishlist writes  *)
(*              the wishlist as text and parse_wishlist reads it back      *)
(*   ParseSpec  parse_wishlist on a wishlist file of any lines             *)
(*   ReadSpec   parse_wishlist reads the wishlist while a producer's       *)
(*              drain writes it                                            *)
(*   ScoreSpec  slskd_downloader.search_album on the responses of a search *)
(*   DownSpec   two runs of slskd_downloader.main on one wishlist          *)
(*   DownFairSpec  one run of slskd_downloader.main that keeps running     *)
(*   PersistSpec   the producers' runs and a downloader run side by side   *)
(*   RaceSpec   one QueueManager.approve request while other processes     *)
(*              add, approve and reject                                    *)
(*   OpsSpec    SeqSpec with the producers' drain among the calls          *)
(*   SnapSpec   read-mode blocks whose caller changes the yielded value    *)
(*   AuthSpec   the requests of the UI through api/middleware/auth.py      *)
(*   LockSpec   FairSpec started on two chosen queue files                 *)
(***************************************************************************)
EXTENDS Integers, Sequences, FiniteSets, TLC

\* ------------------------------------------------------------------ bounds
NumProcs == 2
MaxCalls == 1
MaxItems == 2
MaxRuns == 2
MaxApiCalls == 1
MaxLen == 3
BufLines == 1
MaxFiles == 2
MaxResp == 2
MaxBatch == 2
MaxWish == 2
MaxDownRuns == 2
MaxRaw == 5

Procs == 1..NumProcs
Producers == {"cat", "lb"}
Mbids == {"m1", "m2"}
Keys == {"pending", "approved", "rejected"}

\* ------------------------------------------------------------- data model
\* A queue item: the dict built by a producer.  type = "album" stands for a
\* dict that carries its title under the key 'album', "track" under 'title'.
\* The fields no operation reads (added_at, score, similar_to, cover_url,
\* year) are left out.
I1 == [mbid |-> "m1", artist |-> "A", title |-> "T1", type |-> "album",
       source |-> "catalog"]
I2 == [mbid |-> "m2", artist |-> "A", title |-> "T2", type |-> "album",
       source |-> "catalog"]
Items == {I1, I2}
NoItem == [mbid |-> "", artist |-> "", title |-> "", type |-> "", source |-> ""]

Range(s) == {s[i] : i \in 1..Len(s)}

\* list(a_set): the elements in some fixed order (Python's set order).
RECURSIVE SetToSeq(_)
SetToSeq(S) ==
  IF S = {} THEN <<>>
  ELSE LET x == CHOOSE y \in S : TRUE IN <<x>> \o SetToSeq(S \ {x})

RECURSIVE SelectSeq2(_, _)
SelectSeq2(s, S) ==
  IF s = <<>> THEN <<>>
  ELSE (IF Head(s).mbid \in S THEN <<Head(s)>> ELSE <<>>) \o SelectSeq2(Tail(s), S)

RECURSIVE RejectSeq2(_, _)
RejectSeq2(s, S) ==
  IF s = <<>> THEN <<>>
  ELSE (IF Head(s).mbid \in S THEN <<>> ELSE <<Head(s)>>) \o RejectSeq2(Tail(s), S)

MbidsOf(s) == {s[i].mbid : i \in 1..Len(s)}

\* DEFAULT_QUEUE as written in the source: three empty lists.
DEFAULT_QUEUE == [pending |-> <<>>, approved |-> <<>>, rejected |-> <<>>]

\* The bytes of the queue file.  kind: "none" (no file), "blank" (empty
\* file), "garbage" (not parsable as JSON), "json" (q is the parsed object).
\* len is the file's size in abstract units.
NoFile == [kind |-> "none", q |-> DEFAULT_QUEUE, len |-> 0]
Blank == [kind |-> "blank", q |-> DEFAULT_QUEUE, len |-> 0]

\* json.dumps(queue, indent=2): an item record serialises to more bytes than
\* a bare identifier string, and every list element adds to the size.
JsonLen(q) == 1 + 2 * Len(q.pending) + 2 * Len(q.approved) + Len(q.rejected)
JsonContent(q) == [kind |-> "json", q |-> q, len |-> JsonLen(q)]

\* A write of `new` at offset 0 of a file holding `old`, without truncation
\* (the flush of a buffer filled after f.seek(0)): bytes of old beyond
\* new.len survive and follow the new document, which json.loads rejects.
Overwrite(old, new) ==
  IF old.len <= new.len THEN new
  ELSE [kind |-> "garbage", q |-> DEFAULT_QUEUE, len |-> old.len]

\* ------------------------------------------------- queue.py: the bodies
\* The dict a locked_queue block yields.  alias names the keys whose list is
\* the very list object held by the module global DEFAULT_QUEUE
\* (DEFAULT_QUEUE.copy() is a shallow copy); json.loads builds fresh lists.
InMem(q, alias) ==
  [pending |-> q.pending, approved |-> q.approved, rejected |-> q.rejected,
   alias |-> alias]
Plain(queue) ==
  [pending |-> queue.pending, approved |-> queue.approved,
   rejected |-> queue.rejected]

\* locked_queue, lines 60-73: read and parse the content; dflt is the
\* current value of this process's DEFAULT_QUEUE.
ParseQueue(content, dflt) ==
  IF content.kind = "json" THEN InMem(content.q, {}) ELSE InMem(dflt, Keys)

\* Every body returns the dict after the block, the process's DEFAULT_QUEUE
\* after it, and the count the function returns.
add_pending(queue, dflt, entry) ==
  LET pending == Append(queue.pending, entry) IN
  [queue |-> [queue EXCEPT !.pending = pending],
   dflt |-> IF "pending" \in queue.alias
            THEN [dflt EXCEPT !.pending = pending] ELSE dflt,
   count |-> 0]

\* approve_items that counts the identifiers it matched, not the items.
approve_items_counts_mbids(queue, dflt, mbid_set) ==
  LET moved == SelectSeq2(queue.pending, mbid_set)
      approved == queue.approved \o moved
      new_pending == RejectSeq2(queue.pending, mbid_set) IN
  [queue |-> [queue EXCEPT !.pending = new_pending, !.approved = approved,
                           !.alias = @ \ {"pending"}],
   dflt |-> IF "approved" \in queue.alias
            THEN [dflt EXCEPT !.approved = approved] ELSE dflt,
   count |-> Cardinality(MbidsOf(moved))]

\* approve_items that copies the matching items and leaves them pending.
approve_items_keeps_pending(queue, dflt, mbid_set) ==
  LET moved == SelectSeq2(queue.pending, mbid_set)
      approved == queue.approved \o moved IN
  [queue |-> [queue EXCEPT !.approved = approved],
   dflt |-> IF "approved" \in queue.alias
            THEN [dflt EXCEPT !.approved = approved] ELSE dflt,
   count |-> Len(moved)]

approve_items(queue, dflt, mbid_set) ==
  LET moved == SelectSeq2(queue.pending, mbid_set)
      approved == queue.approved \o moved
      new_pending == RejectSeq2(queue.pending, mbid_set) IN
  [queue |-> [queue EXCEPT !.pending = new_pending, !.approved = approved,
                           !.alias = @ \ {"pending"}],
   dflt |-> IF "approved" \in queue.alias
            THEN [dflt EXCEPT !.approved = approved] ELSE dflt,
   count |-> Len(moved)]

\* reject_items that drops the matching items without recording them.
reject_items_forgets(queue, dflt, mbid_set) ==
  LET hit == SelectSeq2(queue.pending, mbid_set)
      new_pending == RejectSeq2(queue.pending, mbid_set) IN
  [queue |-> [queue EXCEPT !.pending = new_pending,
                           !.rejected = SetToSeq(Range(queue.rejected)),
                           !.alias = @ \ {"pending", "rejected"}],
   dflt |-> dflt,
   count |-> Len(hit)]

\* reject_items that appends the identifier of every item it removes to the
\* list, without going through a set.
reject_items_appends(queue, dflt, mbid_set) ==
  LET hit == SelectSeq2(queue.pending, mbid_set)
      new_pending == RejectSeq2(queue.pending, mbid_set) IN
  [queue |-> [queue EXCEPT !.pending = new_pending,
                           !.rejected = @ \o [i \in 1..Len(hit) |-> hit[i].mbid],
                           !.alias = @ \ {"pending", "rejected"}],
   dflt |-> dflt,
   count |-> Len(hit)]

\* reject_items that also withdraws the approved items of the rejected
\* identifiers.
reject_items_unapproves(queue, dflt, mbid_set) ==
  LET hit == SelectSeq2(queue.pending, mbid_set)
      rejected == Range(queue.rejected) \cup MbidsOf(hit)
      new_pending == RejectSeq2(queue.pending, mbid_set) IN
  [queue |-> [queue EXCEPT !.pending = new_pending,
                           !.approved = RejectSeq2(queue.approved, mbid_set),
                           !.rejected = SetToSeq(rejected),
                           !.alias = @ \ {"pending", "rejected"}],
   dflt |-> dflt,
   count |-> Len(hit)]

reject_items(queue, dflt, mbid_set) ==
  LET hit == SelectSeq2(queue.pending, mbid_set)
      rejected == Range(queue.rejected) \cup MbidsOf(hit)
      new_pending == RejectSeq2(queue.pending, mbid_set) IN
  [queue |-> [queue EXCEPT !.pending = new_pending,
                           !.rejected = SetToSeq(rejected),
                           !.alias = @ \ {"pending", "rejected"}],
   dflt |-> dflt,
   count |-> Len(hit)]

\* load_queue: list(...) copies of the three lists.
load_queue(queue) == Plain(queue)

\* get_rejected_mbids: set(queue.get("rejected", [])).
get_rejected_mbids(queue) == Range(queue.rejected)

\* --------------------------------------------------- wishlist.py: the body
\* One wishlist line, before its text encoding.
WishLine(artist, title, is_album) ==
  [artist |-> artist, title |-> title, is_album |-> is_album]

\* process_approved_to_wishlist, lines 124-146: the lines written for a
\* batch; an item without artist or title is skipped.
RECURSIVE process_approved_to_wishlist(_)
process_approved_to_wishlist(approved_items) ==
  IF approved_items = <<>> THEN <<>>
  ELSE LET item == Head(approved_items)
           rest == process_approved_to_wishlist(Tail(approved_items)) IN
       IF item.artist = "" \/ item.title = "" THEN rest
       ELSE <<WishLine(item.artist, item.title, item.type = "album")>> \o rest

\* ------------------------------------------------------------------ state
VARIABLES
  qfile,   \* content of pending_queue.json
  qlock,   \* flock state of pending_queue.json, per process: none / sh / ex
  wfile,   \* lines of wishlist.txt
  wlock,   \* flock state of wishlist.txt, per process
  pc,      \* where each process is inside its current call
  call,    \* the call each process is making
  queue,   \* the dict yielded to each process by locked_queue
  dflt,    \* each process's module global DEFAULT_QUEUE
  seen,    \* the file content each process read under its lock
  ret,     \* what each process's last call returned
  raised,  \* whether the body of the current block raised
  wbuf,    \* wishlist lines written but still in the file object's buffer
  last,    \* the last completed call of each process, while it is idle
  prev,    \* the call each process completed before its current one
  done,    \* how many calls each process has completed (up to MaxCalls)
  start,   \* the queue file the run started with
  \* --- the producers (catalog_discovery.main, lb_fetch.main) and the API
  ppc,            \* where each producer is in its run
  mode,           \* lb_fetch's mode in its current run: track / album
  rejected_mbids, \* each producer's snapshot of the rejected identifiers
  pending_mbids,  \* lb_fetch's snapshot of the pending identifiers
  dedup,          \* each producer's in-memory set: discovered / processed
  seen_albums,    \* lb_fetch album mode: albums seen in this run
  todo,           \* each producer's candidates still to handle in this run
  albums,         \* catalog_discovery: albums of the current artist to handle
  dedupfile,      \* catalog_discovered.json / processed.json
  runs,           \* completed runs of each producer
  apc,            \* where the API's approve / approve_all handler is
  api_mbids,      \* the identifiers of the API's current request
  to_approve,     \* QueueManager.approve: the items it read before approving
  napi,           \* API requests made
  aret,           \* the count QueueManager.approve last returned
  \* --- the wishlist as text (append_to_wishlist, parse_wishlist)
  top,     \* the write operation called: append / batch
  tin,     \* the entries handed to it
  tfile,   \* the lines of wishlist.txt, each a sequence of characters
  tcount,  \* what process_approved_to_wishlist returned
  tout,    \* what parse_wishlist returned
  tpc,     \* off / called / written / parsed
  \* --- the downloader reading the wishlist (parse_wishlist)
  rpc,     \* idle / reading / done
  rseen,   \* the lines parse_wishlist has read
  \* --- search_album
  sin,     \* its arguments and the responses of the search
  sout,    \* what it returned
  spc,     \* off / called / returned
  \* --- the downloader's runs (slskd_downloader.main)
  dpc,        \* off / loop / queued / added / pause / done
  din,        \* wishlist.txt, the responses of a search, min_album_tracks
  downloaded, \* main's set of downloaded keys
  downfile,   \* downloaded.json: absent, a list of keys, or cut short
  ditems,     \* what parse_wishlist returned to this run
  di,         \* the index of the item the loop is at
  drun,       \* the number of the current run
  dreq,       \* the transfer requests made: slskd.transfers.enqueue calls
  dkilled,    \* the runs that were killed before they ended
  dout,       \* what this run did with each item so far
  dprev,      \* what the run before did with each item
  dunpaused,  \* searches made since the last time.sleep(2) of the loop
  \* --- the API's authentication (AuthMiddleware)
  asettings,  \* settings.ui.auth, read when the app starts
  areq,       \* the request being handled: its path and its headers
  aresp,      \* the response: its status and the handler that ran
  authpc      \* off / up / received / answered

hist == <<last, prev, done, start>>
readvars == <<rpc, rseen>>
scorevars == <<sin, sout, spc>>
downvars == <<dpc, din, downloaded, downfile, ditems, di, drun, dreq, dkilled,
              dout, dprev, dunpaused>>
textvars == <<top, tin, tfile, tcount, tout, tpc>>
authvars == <<asettings, areq, aresp, authpc>>
prodvars == <<ppc, mode, rejected_mbids, pending_mbids, dedup, seen_albums,
              todo, albums, dedupfile, runs, apc, api_mbids, to_approve, napi,
              aret>>
\* The variables the steps of a queue or wishlist call leave alone.
others == <<prodvars, textvars, readvars, scorevars, downvars, authvars>>
\* The variables the producers' and the API's steps leave alone, but for
\* the count an approve request returns.
callcore == <<qlock, wlock, pc, call, queue, dflt, seen, ret, raised, wbuf, hist,
              textvars, readvars, scorevars, downvars, authvars>>
\* The variables the producers' steps leave alone.
callvars == <<callcore, aret>>
\* The variables of the files, their locks, the calls, the producers, the API
\* and the downloader's runs.
sysvars == <<qfile, qlock, wfile, wlock, pc, call, queue, dflt, seen, ret,
             raised, wbuf, hist, prodvars, downvars, authvars>>
\* The variables the downloader's runs leave alone.
downrest == <<qfile, qlock, wfile, wlock, pc, call, queue, dflt, seen, ret,
              raised, wbuf, hist, prodvars, textvars, readvars, scorevars,
              authvars>>
\* The variables the API's authentication leaves alone.
authrest == <<qfile, qlock, wfile, wlock, pc, call, queue, dflt, seen, ret,
              raised, wbuf, hist, prodvars, textvars, readvars, scorevars,
              downvars>>
vars == <<qfile, qlock, wfile, wlock, pc, call, queue, dflt, seen, ret,
          raised, wbuf, hist, others>>

Call(op, item, mbids) == [op |-> op, item |-> item, mbids |-> mbids]
NoCall == Call("none", NoItem, {})
QueueCalls ==
  {Call("add", e, {}) : e \in Items}
  \cup {Call(op, NoItem, S) : op \in {"approve", "reject"}, S \in (SUBSET Mbids) \ {{}}}
  \cup {Call(op, NoItem, {}) : op \in {"load", "get_rejected"}}
WishCalls ==
  {Call("append", e, {}) : e \in Items} \cup {Call("drain", NoItem, {})}
Calls == QueueCalls \cup WishCalls

\* The queue files a run may find: no file yet, or a queue left by earlier
\* runs, each identifier pending, approved, rejected or unknown.
Keep(s, S) == SelectSeq2(s, S)
InitQueues ==
  {[pending |-> Keep(<<I1, I2>>, P), approved |-> Keep(<<I1, I2>>, A),
    rejected |-> SetToSeq(R)] :
     <<P, A, R>> \in {t \in (SUBSET Mbids) \X (SUBSET Mbids) \X (SUBSET Mbids) :
                        /\ t[1] \cap t[2] = {} /\ t[1] \cap t[3] = {}
                        /\ t[2] \cap t[3] = {}}}
InitFiles == {NoFile} \cup {JsonContent(q) : q \in InitQueues}

NoRet == [count |-> 0, queue |-> DEFAULT_QUEUE, mbids |-> {}, raised |-> FALSE]
NoLast == [call |-> NoCall, ret |-> NoRet, before |-> NoFile, after |-> NoFile]
NoPrev == [call |-> NoCall, count |-> 0, after |-> NoFile]

\* The mode each operation passes to locked_queue.
WriteOps == {"add", "approve", "reject", "drain"}
ReadOps == {"load", "get_rejected"}
Mode(p) == IF call[p].op \in WriteOps THEN "w" ELSE "r"

\* The producers and the API are idle; no dedup file exists.
ProdInit ==
  /\ ppc = [prod \in Producers |-> "idle"]
  /\ mode = "track"
  /\ rejected_mbids = [prod \in Producers |-> {}]
  /\ pending_mbids = {}
  /\ dedup = [prod \in Producers |-> {}]
  /\ seen_albums = {}
  /\ todo = [prod \in Producers |-> <<>>]
  /\ albums = <<>>
  /\ dedupfile = [prod \in Producers |-> {}]
  /\ runs = [prod \in Producers |-> 0]
  /\ apc = "idle"
  /\ api_mbids = {}
  /\ to_approve = <<>>
  /\ napi = 0
  /\ aret = 0

\* Nothing has been written or parsed as text.
TextIdle ==
  /\ top = "none"
  /\ tin = <<>>
  /\ tfile = <<>>
  /\ tcount = 0
  /\ tout = <<>>
  /\ tpc = "off"

\* The downloader is not running.
ReadIdle ==
  /\ rpc = "idle"
  /\ rseen = <<>>

\* search_album has not been called.
ScoreIdle ==
  /\ sin = [artist |-> <<>>, album |-> <<>>, min_files |-> 0, responses |-> <<>>]
  /\ sout = [username |-> "", directory |-> <<>>, files |-> <<>>,
             all_files |-> <<>>, score |-> 0]
  /\ spc = "off"

\* downloaded.json: absent, a JSON list of keys, or cut short by a write
\* that did not finish.
NoDownFile == [kind |-> "none", keys |-> {}]
CutDownFile == [kind |-> "cut", keys |-> {}]

\* The downloader has not run: there is no downloaded.json.
DownIdle ==
  /\ dpc = "off"
  /\ din = [lines |-> <<>>, responses |-> <<>>, min_album_tracks |-> 0]
  /\ downloaded = {}
  /\ downfile = NoDownFile
  /\ ditems = <<>>
  /\ di = 0
  /\ drun = 0
  /\ dreq = <<>>
  /\ dkilled = {}
  /\ dout = <<>>
  /\ dprev = <<>>
  /\ dunpaused = 0

\* AuthSettings as config.py declares it: disabled, nothing set.  An unset
\* username, password or api_key is "": the middleware reads each of them
\* through `or ""`.
DefaultAuthSettings ==
  [enabled |-> FALSE, type |-> "none", username |-> "", password |-> "",
   api_key |-> ""]

\* A request: its path as the segments between the slashes, and the headers
\* the middleware reads.  Authorization is absent, or "Basic " and a payload,
\* or "Bearer " and a token; an absent header reads as "".
NoAuthorization == [scheme |-> "", decodes |-> FALSE, username |-> "",
                    password |-> "", token |-> ""]
NoHttpRequest == [path |-> <<>>, authorization |-> NoAuthorization,
               x_api_key |-> "", remote_user |-> ""]
NoResponse == [status |-> 0, handler |-> "none"]

\* The app has not started.
AuthIdle ==
  /\ asettings = DefaultAuthSettings
  /\ areq = NoHttpRequest
  /\ aresp = NoResponse
  /\ authpc = "off"

InitRest ==
  /\ qlock = [p \in Procs |-> "none"]
  /\ wfile = <<>>
  /\ wlock = [p \in Procs |-> "none"]
  /\ pc = [p \in Procs |-> "idle"]
  /\ call = [p \in Procs |-> NoCall]
  /\ queue = [p \in Procs |-> InMem(DEFAULT_QUEUE, {})]
  /\ dflt = [p \in Procs |-> DEFAULT_QUEUE]
  /\ seen = [p \in Procs |-> NoFile]
  /\ ret = [p \in Procs |-> NoRet]
  /\ raised = [p \in Procs |-> FALSE]
  /\ wbuf = [p \in Procs |-> <<>>]
  /\ last = [p \in Procs |-> NoLast]
  /\ prev = [p \in Procs |-> NoPrev]
  /\ done = [p \in Procs |-> 0]
  /\ start = qfile
  /\ ProdInit
  /\ TextIdle
  /\ ReadIdle
  /\ ScoreIdle
  /\ DownIdle
  /\ AuthIdle

Init == qfile \in InitFiles /\ InitRest

\* flock: LOCK_EX needs no other holder, LOCK_SH no exclusive holder.
CanLock(lock, p, type) ==
  \A o \in Procs \ {p} :
    IF type = "ex" THEN lock[o] = "none" ELSE lock[o] # "ex"

\* fcntl.flock(fd, LOCK_UN).
Unlock(lock, p) == [lock EXCEPT ![p] = "none"]

\* A close that leaves the flock behind (as if the lock were held through
\* another descriptor that stays open).
CloseFileKeepsLock(lock, p) == lock

\* Closing the file object (leaving `with open(...)`, normally or by an
\* exception): the descriptor is closed, which drops any flock still held.
CloseFile(lock, p) == [lock EXCEPT ![p] = "none"]

\* The record of a finished call: what it was, what it returned, the file
\* content it read under its lock and the file content it left.
Logged(p, r, after) ==
  [call |-> call[p], ret |-> r, before |-> seen[p], after |-> after]

\* -------------------------------------------------------- a call begins
\* A process calls one queue or wishlist operation.
Begin(p, c) ==
  /\ pc[p] = "idle"
  /\ call' = [call EXCEPT ![p] = c]
  /\ raised' = [raised EXCEPT ![p] = FALSE]
  /\ pc' = [pc EXCEPT ![p] = IF c.op = "append" THEN "w_open" ELSE "check"]
  /\ prev' = [prev EXCEPT ![p] = [call |-> last[p].call,
                                  count |-> last[p].ret.count,
                                  after |-> last[p].after]]
  /\ last' = [last EXCEPT ![p] = NoLast]
  /\ UNCHANGED <<qfile, qlock, wfile, wlock, queue, dflt, seen, ret, wbuf,
                 done, start, others>>

\* ------------------------------------------------ locked_queue, step by step
\* line 48: if not queue_path.exists()
QueueExists(p) ==
  /\ pc[p] = "check"
  /\ pc' = [pc EXCEPT ![p] = IF qfile.kind = "none" THEN "create" ELSE "open"]
  /\ UNCHANGED <<qfile, qlock, wfile, wlock, call, queue, dflt, seen, ret,
                 raised, wbuf, hist, others>>

\* line 49: queue_path.write_text(json.dumps(DEFAULT_QUEUE, indent=2)),
\* taken without any lock; write_text truncates and replaces the content.
QueueCreate(p) ==
  /\ pc[p] = "create"
  /\ qfile' = JsonContent(dflt[p])
  /\ pc' = [pc EXCEPT ![p] = "open"]
  /\ UNCHANGED <<qlock, wfile, wlock, call, queue, dflt, seen, ret, raised,
                 wbuf, hist, others>>

\* lines 55-58: open the file and flock it (blocking).
QueueLock(p) ==
  /\ pc[p] = "open"
  /\ LET type == IF Mode(p) = "w" THEN "ex" ELSE "sh" IN
     /\ CanLock(qlock, p, type)
     /\ qlock' = [qlock EXCEPT ![p] = type]
  /\ pc' = [pc EXCEPT ![p] = "read"]
  /\ UNCHANGED <<qfile, wfile, wlock, call, queue, dflt, seen, ret, raised,
                 wbuf, hist, others>>

\* lines 60-75: read, parse, fill missing keys, yield.
QueueRead(p) ==
  /\ pc[p] = "read"
  /\ seen' = [seen EXCEPT ![p] = qfile]
  /\ queue' = [queue EXCEPT ![p] = ParseQueue(qfile, dflt[p])]
  /\ pc' = [pc EXCEPT ![p] = "body"]
  /\ UNCHANGED <<qfile, qlock, wfile, wlock, call, dflt, ret, raised, wbuf, hist, others>>

\* A call returns r; after is the queue file as the call leaves it.  The
\* call's locals are gone; what it did is kept in last.
Return(p, r, after) ==
  /\ ret' = [ret EXCEPT ![p] = NoRet]
  /\ queue' = [queue EXCEPT ![p] = InMem(DEFAULT_QUEUE, {})]
  /\ seen' = [seen EXCEPT ![p] = NoFile]
  /\ UNCHANGED <<prev, start, others>>
  /\ last' = [last EXCEPT ![p] = Logged(p, r, after)]
  /\ done' = [done EXCEPT ![p] = IF @ < MaxCalls THEN @ + 1 ELSE @]
  /\ pc' = [pc EXCEPT ![p] = "idle"]

\* ---------------------------------------- the bodies run inside the block
\* add_pending, lines 119-120.
AddPending(p) ==
  /\ pc[p] = "body" /\ call[p].op = "add"
  /\ LET r == add_pending(queue[p], dflt[p], call[p].item) IN
     /\ queue' = [queue EXCEPT ![p] = r.queue]
     /\ dflt' = [dflt EXCEPT ![p] = r.dflt]
     /\ ret' = [ret EXCEPT ![p] = [NoRet EXCEPT !.count = r.count]]
  /\ pc' = [pc EXCEPT ![p] = "writeback"]
  /\ UNCHANGED <<qfile, qlock, wfile, wlock, call, seen, raised, wbuf, hist, others>>

\* approve_items, lines 136-149.
ApproveItems(p) ==
  /\ pc[p] = "body" /\ call[p].op = "approve"
  /\ LET r == approve_items(queue[p], dflt[p], call[p].mbids) IN
     /\ queue' = [queue EXCEPT ![p] = r.queue]
     /\ dflt' = [dflt EXCEPT ![p] = r.dflt]
     /\ ret' = [ret EXCEPT ![p] = [NoRet EXCEPT !.count = r.count]]
  /\ pc' = [pc EXCEPT ![p] = "writeback"]
  /\ UNCHANGED <<qfile, qlock, wfile, wlock, call, seen, raised, wbuf, hist, others>>

\* reject_items, lines 170-184.
RejectItems(p) ==
  /\ pc[p] = "body" /\ call[p].op = "reject"
  /\ LET r == reject_items(queue[p], dflt[p], call[p].mbids) IN
     /\ queue' = [queue EXCEPT ![p] = r.queue]
     /\ dflt' = [dflt EXCEPT ![p] = r.dflt]
     /\ ret' = [ret EXCEPT ![p] = [NoRet EXCEPT !.count = r.count]]
  /\ pc' = [pc EXCEPT ![p] = "writeback"]
  /\ UNCHANGED <<qfile, qlock, wfile, wlock, call, seen, raised, wbuf, hist, others>>

\* load_queue, lines 103-109: the return inside the block ends it normally.
LoadQueue(p) ==
  /\ pc[p] = "body" /\ call[p].op = "load"
  /\ ret' = [ret EXCEPT ![p] = [NoRet EXCEPT !.queue = load_queue(queue[p])]]
  /\ pc' = [pc EXCEPT ![p] = "unlock"]
  /\ UNCHANGED <<qfile, qlock, wfile, wlock, call, queue, dflt, seen, raised,
                 wbuf, hist, others>>

\* get_rejected_mbids, lines 196-197.
GetRejectedMbids(p) ==
  /\ pc[p] = "body" /\ call[p].op = "get_rejected"
  /\ ret' = [ret EXCEPT ![p] = [NoRet EXCEPT !.mbids = get_rejected_mbids(queue[p])]]
  /\ pc' = [pc EXCEPT ![p] = "unlock"]
  /\ UNCHANGED <<qfile, qlock, wfile, wlock, call, queue, dflt, seen, raised,
                 wbuf, hist, others>>

\* process_approved_queue (lb_fetch.py 177-183, catalog_discovery.py
\* 266-272): with nothing approved it returns 0 from inside the block (which
\* still writes the queue back); otherwise it calls
\* process_approved_to_wishlist while the queue block is open.
ProcessApprovedQueue(p) ==
  /\ pc[p] = "body" /\ call[p].op = "drain"
  /\ ret' = [ret EXCEPT ![p] = NoRet]
  /\ pc' = [pc EXCEPT ![p] = IF queue[p].approved = <<>> THEN "writeback"
                             ELSE "w_open"]
  /\ UNCHANGED <<qfile, qlock, wfile, wlock, call, queue, dflt, seen, raised,
                 wbuf, hist, others>>

\* --------------------------------------------- locked_wishlist('a'), steps
\* wishlist.py lines 53-56: open for append and flock LOCK_EX (blocking).
WishLock(p) ==
  /\ pc[p] = "w_open"
  /\ CanLock(wlock, p, "ex")
  /\ wlock' = [wlock EXCEPT ![p] = "ex"]
  /\ pc' = [pc EXCEPT ![p] = "w_body"]
  /\ UNCHANGED <<qfile, qlock, wfile, call, queue, dflt, seen, ret, raised,
                 wbuf, hist, others>>

\* The lines the current call writes: append_to_wishlist (lines 92-99)
\* writes one, process_approved_to_wishlist one per item it keeps.
LinesOf(p) ==
  IF call[p].op = "append"
  THEN <<WishLine(call[p].item.artist, call[p].item.title,
                  call[p].item.type = "album")>>
  ELSE process_approved_to_wishlist(queue[p].approved)

\* Of k lines written through a file object, how many are still in its
\* buffer: the buffer holds BufLines lines, and a write that finds it full
\* flushes it to the file first.
Buffered(k) == IF k = 0 THEN 0 ELSE ((k - 1) % BufLines) + 1

\* The body of the wishlist block: f.write(line) per line, into the file
\* object's buffer, which is flushed to the file when it is full.  The body
\* may raise after k lines (an OSError of the write); k = Len(lines) is the
\* normal completion.
WishBody(p) ==
  /\ pc[p] = "w_body"
  /\ \E k \in 0..Len(LinesOf(p)) :
       /\ wfile' = wfile \o SubSeq(LinesOf(p), 1, k - Buffered(k))
       /\ wbuf' = [wbuf EXCEPT ![p] = SubSeq(LinesOf(p), k - Buffered(k) + 1, k)]
       /\ raised' = [raised EXCEPT ![p] = k < Len(LinesOf(p))]
  /\ pc' = [pc EXCEPT ![p] = "w_unlock"]
  /\ UNCHANGED <<qfile, qlock, wlock, call, queue, dflt, seen, ret, hist, others>>

\* wishlist.py lines 58-62: finally: flock(LOCK_UN), on every exit.
WishUnlock(p) ==
  /\ pc[p] = "w_unlock"
  /\ wlock' = Unlock(wlock, p)
  /\ pc' = [pc EXCEPT ![p] = "w_close"]
  /\ UNCHANGED <<qfile, qlock, wfile, call, queue, dflt, seen, ret, raised,
                 wbuf, hist, others>>

\* A wishlist block that swallows the exception of its body: the caller goes
\* on as after a complete write.
WishCloseSwallows(p) ==
  /\ pc[p] = "w_close"
  /\ wfile' = wfile \o wbuf[p]
  /\ wbuf' = [wbuf EXCEPT ![p] = <<>>]
  /\ wlock' = CloseFile(wlock, p)
  /\ IF call[p].op = "append"
     THEN Return(p, NoRet, qfile)
     ELSE /\ pc' = [pc EXCEPT ![p] = "writeback"]
          /\ ret' = [ret EXCEPT ![p] = [NoRet EXCEPT !.count = Len(LinesOf(p))]]
          /\ queue' = [queue EXCEPT ![p].approved = <<>>,
                                    ![p].alias = @ \ {"approved"}]
          /\ UNCHANGED <<seen, hist, others>>
  /\ UNCHANGED <<qfile, qlock, call, dflt, raised>>

\* Leaving `with open(wishlist_path, 'a')`: the buffer is flushed (appended
\* to the file) and the file closed.  Then append_to_wishlist returns (or
\* raises); process_approved_queue goes on with queue["approved"] = [] and
\* the end of the queue block, or the exception leaves the queue block.
WishClose(p) ==
  /\ pc[p] = "w_close"
  /\ wfile' = wfile \o wbuf[p]
  /\ wbuf' = [wbuf EXCEPT ![p] = <<>>]
  /\ wlock' = CloseFile(wlock, p)
  /\ IF call[p].op = "append"
     THEN Return(p, [NoRet EXCEPT !.raised = raised[p]], qfile)
     ELSE /\ IF raised[p]
             THEN /\ pc' = [pc EXCEPT ![p] = "exc_close"]
                  /\ UNCHANGED <<queue, ret>>
             ELSE /\ pc' = [pc EXCEPT ![p] = "writeback"]
                  /\ ret' = [ret EXCEPT ![p] = [NoRet EXCEPT !.count = Len(LinesOf(p))]]
                  /\ queue' = [queue EXCEPT ![p].approved = <<>>,
                                            ![p].alias = @ \ {"approved"}]
          /\ UNCHANGED <<seen, hist, others>>
  /\ UNCHANGED <<qfile, qlock, call, dflt, raised>>

\* ------------------------------------------- the end of the locked_queue block
\* lines 78-81, mode 'w': f.seek(0); f.truncate() empties the file at once;
\* json.dump(queue, f) fills the file object's buffer, not the file.
QueueWriteBack(p) ==
  /\ pc[p] = "writeback"
  /\ qfile' = Blank
  /\ pc' = [pc EXCEPT ![p] = "unlock"]
  /\ UNCHANGED <<qlock, wfile, wlock, call, queue, dflt, seen, ret, raised,
                 wbuf, hist, others>>

\* line 84: fcntl.flock(f.fileno(), fcntl.LOCK_UN), still inside `with open`.
QueueUnlock(p) ==
  /\ pc[p] = "unlock"
  /\ qlock' = Unlock(qlock, p)
  /\ pc' = [pc EXCEPT ![p] = "close"]
  /\ UNCHANGED <<qfile, wfile, wlock, call, queue, dflt, seen, ret, raised,
                 wbuf, hist, others>>

\* Leaving `with open(queue_path, ...)` (line 55): the buffered dump is
\* flushed at the file object's offset 0 and the file closed; the call returns.
QueueClose(p) ==
  /\ pc[p] = "close"
  /\ qfile' = IF Mode(p) = "w"
              THEN Overwrite(qfile, JsonContent(Plain(queue[p]))) ELSE qfile
  /\ qlock' = CloseFile(qlock, p)
  /\ Return(p, ret[p], qfile')
  /\ UNCHANGED <<wfile, wlock, call, dflt, raised, wbuf>>

\* An exception of the body that leaves the queue file open and locked.
QueueCloseRaisedKeepsLock(p) ==
  /\ pc[p] = "exc_close"
  /\ Return(p, [NoRet EXCEPT !.raised = TRUE], qfile)
  /\ UNCHANGED <<qfile, qlock, wfile, wlock, call, dflt, raised, wbuf>>

\* The body raised: the exception passes through the generator at its yield
\* (line 75; nothing is written back, LOCK_UN at line 84 is skipped), `with
\* open` closes the file, and the exception reaches the caller.
QueueCloseRaised(p) ==
  /\ pc[p] = "exc_close"
  /\ qlock' = CloseFile(qlock, p)
  /\ Return(p, [NoRet EXCEPT !.raised = TRUE], qfile)
  /\ UNCHANGED <<qfile, wfile, wlock, call, dflt, raised, wbuf>>

\* The steps of the calls that touch the queue file only.
QueueStep(p) ==
  \/ QueueExists(p) \/ QueueCreate(p) \/ QueueLock(p) \/ QueueRead(p)
  \/ AddPending(p) \/ ApproveItems(p) \/ RejectItems(p)
  \/ LoadQueue(p) \/ GetRejectedMbids(p)
  \/ QueueWriteBack(p) \/ QueueUnlock(p) \/ QueueClose(p)

\* The further steps of the calls that write the wishlist.
WishStep(p) ==
  \/ ProcessApprovedQueue(p)
  \/ WishLock(p) \/ WishBody(p) \/ WishUnlock(p) \/ WishClose(p)
  \/ QueueCloseRaised(p)

Step(p) == QueueStep(p) \/ WishStep(p)

\* ---------------------------------------------------------- Spec: processes
Next ==
  \/ \E p \in Procs, c \in Calls :
        done[p] < MaxCalls /\ Begin(p, c)
  \/ \E p \in Procs : Step(p)

Spec == Init /\ [][Next]_vars

\* ------------------------------------------- FairSpec: processes keep running
\* A process that can take a step of its call eventually takes one (the OS
\* schedules every runnable process; a blocked flock returns once the lock
\* stays free).
FairSpec == Spec /\ \A p \in Procs : WF_vars(Step(p))

\* ------------------------------------------- LockSpec: FairSpec on two queue files
\* The processes start on no queue file, or on one with an item pending and
\* an item approved, so that a drain has lines to write and takes the
\* wishlist lock inside its queue block.
LockFiles ==
  {NoFile,
   JsonContent([pending |-> <<I1>>, approved |-> <<I2>>, rejected |-> <<>>])}

LockInit == qfile \in LockFiles /\ InitRest

LockSpec == LockInit /\ [][Next]_vars /\ \A p \in Procs : WF_vars(Step(p))

\* ------------------------------------------- SeqSpec: one process, in turn
\* The queue file is damaged from outside while no call is in progress: its
\* bytes no longer parse ("garbage"), or it is emptied ("blank").
Corrupt(k) ==
  /\ pc[1] = "idle"
  /\ qfile.kind # "none"
  /\ qfile' = IF k = "blank" THEN Blank
              ELSE [kind |-> "garbage", q |-> DEFAULT_QUEUE,
                    len |-> IF qfile.len = 0 THEN 1 ELSE qfile.len]
  /\ qfile' # qfile
  /\ UNCHANGED <<qlock, wfile, wlock, pc, call, queue, dflt, seen, ret,
                 raised, wbuf, hist, others>>

\* The calls enumerated keep the stored lists within MaxItems entries.
SeqCallAllowed(c) ==
  /\ c.op = "add" =>
       /\ Len(qfile.q.pending) + Len(qfile.q.approved) < MaxItems
       /\ Len(dflt[1].pending) < MaxItems
  /\ c.op = "approve" => Len(dflt[1].approved) < MaxItems

SeqInit == qfile = NoFile /\ InitRest

SeqNext ==
  \/ \E c \in QueueCalls : SeqCallAllowed(c) /\ Begin(1, c)
  \/ QueueStep(1)

SeqSpec == SeqInit /\ [][SeqNext]_vars

\* ------------------------- SnapSpec: read-mode blocks whose caller changes the value
\* A caller of locked_queue('r') changes the dict it was given, as the
\* docstring's example does in mode 'w' (lines 38-39):
\* queue['pending'].append(entry).  The block then ends as every read-mode
\* block: no write-back, LOCK_UN, close.
ChangeYielded(p) ==
  /\ pc[p] = "body" /\ call[p].op = "change"
  /\ LET r == add_pending(queue[p], dflt[p], call[p].item) IN
     /\ queue' = [queue EXCEPT ![p] = r.queue]
     /\ dflt' = [dflt EXCEPT ![p] = r.dflt]
  /\ ret' = [ret EXCEPT ![p] = NoRet]
  /\ pc' = [pc EXCEPT ![p] = "unlock"]
  /\ UNCHANGED <<qfile, qlock, wfile, wlock, call, seen, raised, wbuf, hist, others>>

\* The read-mode calls: the two of queue.py, and a block that changes what
\* it was given.  The changes enumerated keep the lists within MaxItems.
SnapCalls ==
  {Call(op, NoItem, {}) : op \in ReadOps} \cup {Call("change", e, {}) : e \in Items}

SnapCallAllowed(c) ==
  c.op = "change" => Len(dflt[1].pending) < MaxItems

\* One process makes read-mode calls on a queue file that earlier runs left;
\* between two calls the file may be damaged.
SnapNext ==
  \/ \E c \in SnapCalls : SnapCallAllowed(c) /\ Begin(1, c)
  \/ QueueExists(1) \/ QueueCreate(1) \/ QueueLock(1) \/ QueueRead(1)
  \/ LoadQueue(1) \/ GetRejectedMbids(1) \/ ChangeYielded(1)
  \/ QueueUnlock(1) \/ QueueClose(1)
  \/ \E k \in {"garbage", "blank"} : Corrupt(k)

SnapSpec == Init /\ [][SnapNext]_vars

\* ------------------------- OpsSpec: one call after the other, drains included
\* The calls follow one another from the first run on; the file is never
\* damaged, so every call reads a parsable file.  The drains enumerated keep
\* the wishlist within MaxItems lines.
OpsCalls == QueueCalls \cup {Call("drain", NoItem, {})}

OpsCallAllowed(c) ==
  /\ SeqCallAllowed(c)
  /\ c.op = "drain" => Len(wfile) + Len(qfile.q.approved) <= MaxItems

OpsNext ==
  \/ \E c \in OpsCalls : OpsCallAllowed(c) /\ Begin(1, c)
  \/ QueueStep(1)
  \/ WishStep(1)

OpsSpec == SeqInit /\ [][OpsNext]_vars

\* ------------------------- DamageSpec: SeqSpec with the file damaged between calls
DamageNext ==
  \/ SeqNext
  \/ \E k \in {"garbage", "blank"} : Corrupt(k)

DamageSpec == SeqInit /\ [][DamageNext]_vars

\* ===================================================================
\* ProdSpec: the producers' runs and the API's requests
\* ===================================================================
\* Each locked_queue / locked_wishlist block of a call is one step here: the
\* behaviours in which no other process runs inside another's block.  The
\* queue file starts absent and is parsable from its creation on, so every
\* process's DEFAULT_QUEUE stays as written.
Modes == {"track", "album"}

\* What the outside services answer.  Last.fm ranks one artist that is not
\* in the library; MusicBrainz knows one album of that artist; ListenBrainz
\* recommends two recordings, both on that same album.
Discoveries == <<"a">>
AlbumsOf(name_lower) == <<[mbid |-> "m1", title |-> "T1"]>>
Recs == <<"m2", "m3">>
AlbumOf(recording_mbid) == "m1"

\* catalog_discovery.main, lines 432-443: the entry of an album.
CatalogEntry(artist_name, album) ==
  [mbid |-> album.mbid, artist |-> "A", title |-> album.title,
   type |-> "album", source |-> "catalog"]

\* lb_fetch.main, lines 261-269: the entry of a resolved recording.
TrackEntry(mbid) ==
  [mbid |-> mbid, artist |-> "A", title |-> "T" \o mbid, type |-> "track",
   source |-> "listenbrainz"]

\* lb_fetch.main, lines 307-318: the entry of a resolved album.
AlbumEntry(album_mbid) ==
  [mbid |-> album_mbid, artist |-> "A", title |-> "T1", type |-> "album",
   source |-> "listenbrainz"]

\* locked_queue, lines 48-49 and 60-73, run without interruption: the file
\* is created if missing, then read and parsed.
Opened(content) ==
  ParseQueue(IF content.kind = "none" THEN JsonContent(DEFAULT_QUEUE) ELSE content,
             DEFAULT_QUEUE)

\* The file after a mode 'w' block that leaves the dict d: lines 78-81 and
\* the flush at the close, nothing in between.
Written(d) == JsonContent(Plain(d))

\* The end of a run: main returns, its locals are gone.
Finish(prod) ==
  /\ ppc' = [ppc EXCEPT ![prod] = "idle"]
  /\ runs' = [runs EXCEPT ![prod] = @ + 1]
  /\ rejected_mbids' = [rejected_mbids EXCEPT ![prod] = {}]
  /\ dedup' = [dedup EXCEPT ![prod] = {}]
  /\ todo' = [todo EXCEPT ![prod] = <<>>]

\* catalog_discovery.main lines 303-307: fetch_navidrome_artists returned no
\* artist (Navidrome unreachable, lines 139-141, or an empty library) and
\* main returns, before it loads its state and before line 317.
CatNoLibrary ==
  /\ ppc["cat"] = "idle"
  /\ runs["cat"] < MaxRuns
  /\ Finish("cat")
  /\ UNCHANGED <<qfile, wfile, mode, pending_mbids, seen_albums, albums,
                 dedupfile, apc, api_mbids, to_approve, napi, callvars>>

\* catalog_discovery.main line 313: discovered = load_discovered().
CatStart ==
  /\ ppc["cat"] = "idle"
  /\ runs["cat"] < MaxRuns
  /\ dedup' = [dedup EXCEPT !["cat"] = dedupfile["cat"]]
  /\ ppc' = [ppc EXCEPT !["cat"] = "rej"]
  /\ UNCHANGED <<qfile, wfile, mode, rejected_mbids, pending_mbids, seen_albums,
                 todo, albums, dedupfile, runs, apc, api_mbids, to_approve,
                 napi, callvars>>

\* lb_fetch.main lines 191-206: processed = load_processed(); the mode is
\* read from the configuration.
LbStart(m) ==
  /\ ppc["lb"] = "idle"
  /\ runs["lb"] < MaxRuns
  /\ mode' = m
  /\ dedup' = [dedup EXCEPT !["lb"] = dedupfile["lb"]]
  /\ ppc' = [ppc EXCEPT !["lb"] = "rej"]
  /\ UNCHANGED <<qfile, wfile, rejected_mbids, pending_mbids, seen_albums,
                 todo, albums, dedupfile, runs, apc, api_mbids, to_approve,
                 napi, callvars>>

\* rejected_mbids = get_rejected_mbids() (lb_fetch.py 221,
\* catalog_discovery.py 314): read once, at the start of the run.
ProdRejected(prod) ==
  /\ ppc[prod] = "rej"
  /\ rejected_mbids' = [rejected_mbids EXCEPT ![prod] = get_rejected_mbids(Opened(qfile))]
  /\ qfile' = IF qfile.kind = "none" THEN JsonContent(DEFAULT_QUEUE) ELSE qfile
  /\ ppc' = [ppc EXCEPT ![prod] = "drain"]
  /\ UNCHANGED <<wfile, mode, pending_mbids, dedup, seen_albums, todo, albums,
                 dedupfile, runs, apc, api_mbids, to_approve, napi, callvars>>

\* process_approved_queue() (lb_fetch.py 222, catalog_discovery.py 317): the
\* approved items go to the wishlist and approved is emptied.
ProdDrain(prod) ==
  /\ ppc[prod] = "drain"
  /\ LET queue_ == Opened(qfile) IN
     /\ wfile' = wfile \o process_approved_to_wishlist(queue_.approved)
     /\ qfile' = Written([queue_ EXCEPT !.approved = <<>>])
  /\ ppc' = [ppc EXCEPT ![prod] = IF prod = "cat" THEN "rank" ELSE "load"]
  /\ UNCHANGED <<mode, rejected_mbids, pending_mbids, dedup, seen_albums, todo,
                 albums, dedupfile, runs, apc, api_mbids, to_approve, napi,
                 callvars>>

\* catalog_discovery.main lines 319-380: the ranked similar artists that are
\* not in discovered; with none the run ends.
CatRank ==
  /\ ppc["cat"] = "rank"
  /\ LET discoveries == SelectSeq(Discoveries, LAMBDA n : n \notin dedup["cat"]) IN
     IF discoveries = <<>>
     THEN /\ Finish("cat")
          /\ UNCHANGED albums
     ELSE /\ todo' = [todo EXCEPT !["cat"] = discoveries]
          /\ ppc' = [ppc EXCEPT !["cat"] = "artist"]
          /\ UNCHANGED <<rejected_mbids, dedup, albums, runs>>
  /\ UNCHANGED <<qfile, wfile, mode, pending_mbids, seen_albums, dedupfile,
                 apc, api_mbids, to_approve, napi, callvars>>

\* catalog_discovery.main lines 387-414: the next artist; fetch_artist_albums
\* answers with the artist's albums or, on a request error, with none, and
\* an artist without albums is added to discovered at once (line 410); the
\* save of line 411 is the next step.
CatArtist ==
  /\ ppc["cat"] = "artist"
  /\ IF todo["cat"] = <<>>
     THEN /\ Finish("cat")
          /\ UNCHANGED <<albums, dedupfile>>
     ELSE \E ok \in BOOLEAN :
            LET name_lower == Head(todo["cat"])
                found == IF ok THEN AlbumsOf(name_lower) ELSE <<>> IN
            IF found = <<>>
            THEN /\ dedup' = [dedup EXCEPT !["cat"] = @ \cup {name_lower}]
                 /\ ppc' = [ppc EXCEPT !["cat"] = "save"]
                 /\ UNCHANGED <<dedupfile, todo, albums, rejected_mbids, runs>>
            ELSE /\ albums' = found
                 /\ ppc' = [ppc EXCEPT !["cat"] = "album"]
                 /\ UNCHANGED <<dedup, dedupfile, todo, rejected_mbids, runs>>
  /\ UNCHANGED <<qfile, wfile, mode, pending_mbids, seen_albums, apc,
                 api_mbids, to_approve, napi, callvars>>

\* catalog_discovery.main lines 417-446, manual mode: an album whose mbid is
\* in the run's rejected_mbids is skipped, any other is added to pending.
CatAlbum ==
  /\ ppc["cat"] = "album"
  /\ albums # <<>>
  /\ LET album == Head(albums) IN
     IF album.mbid \in rejected_mbids["cat"]
     THEN UNCHANGED qfile
     ELSE qfile' = Written(add_pending(Opened(qfile), DEFAULT_QUEUE,
                                       CatalogEntry(Head(todo["cat"]), album)).queue)
  /\ albums' = Tail(albums)
  /\ UNCHANGED <<wfile, ppc, mode, rejected_mbids, pending_mbids, dedup,
                 seen_albums, todo, dedupfile, runs, apc, api_mbids,
                 to_approve, napi, callvars>>

\* catalog_discovery.main lines 448-449: after the artist's albums,
\* discovered.add(name_lower); the save of line 450 is the next step.
CatArtistDone ==
  /\ ppc["cat"] = "album"
  /\ albums = <<>>
  /\ dedup' = [dedup EXCEPT !["cat"] = @ \cup {Head(todo["cat"])}]
  /\ ppc' = [ppc EXCEPT !["cat"] = "save"]
  /\ UNCHANGED <<qfile, wfile, mode, rejected_mbids, pending_mbids, seen_albums,
                 todo, albums, dedupfile, runs, apc, api_mbids, to_approve,
                 napi, callvars>>

\* The loop going to its next candidate without the save.
ProdSaveSkipped(prod) ==
  /\ ppc[prod] = "save"
  /\ todo' = [todo EXCEPT ![prod] = Tail(@)]
  /\ ppc' = [ppc EXCEPT ![prod] = IF prod = "cat" THEN "artist" ELSE "rec"]
  /\ UNCHANGED <<qfile, wfile, mode, rejected_mbids, pending_mbids, dedup,
                 seen_albums, albums, dedupfile, runs, apc, api_mbids,
                 to_approve, napi, callvars>>

\* save_discovered(discovered) (catalog_discovery.py 411, 450) and
\* save_processed(processed) (lb_fetch.py 274, 324): the whole set is written
\* to the producer's file, and the loop goes to its next candidate.
ProdSave(prod) ==
  /\ ppc[prod] = "save"
  /\ dedupfile' = [dedupfile EXCEPT ![prod] = dedup[prod]]
  /\ todo' = [todo EXCEPT ![prod] = Tail(@)]
  /\ ppc' = [ppc EXCEPT ![prod] = IF prod = "cat" THEN "artist" ELSE "rec"]
  /\ UNCHANGED <<qfile, wfile, mode, rejected_mbids, pending_mbids, dedup,
                 seen_albums, albums, runs, apc, api_mbids, to_approve, napi,
                 callvars>>

\* lb_fetch.main lines 226-235: the recommendations (none if the request
\* fails), then queue = load_queue() and the identifiers pending now.
LbLoad ==
  /\ ppc["lb"] = "load"
  /\ \E ok \in BOOLEAN : todo' = [todo EXCEPT !["lb"] = IF ok THEN Recs ELSE <<>>]
  /\ pending_mbids' = MbidsOf(load_queue(Opened(qfile)).pending)
  /\ qfile' = IF qfile.kind = "none" THEN JsonContent(DEFAULT_QUEUE) ELSE qfile
  /\ seen_albums' = {}
  /\ ppc' = [ppc EXCEPT !["lb"] = "rec"]
  /\ UNCHANGED <<wfile, mode, rejected_mbids, dedup, albums, dedupfile, runs,
                 apc, api_mbids, to_approve, napi, callvars>>

\* lb_fetch.main lines 247-273, track mode and manual approval: a recording
\* in processed is skipped; one that resolve_recording resolves is added to
\* pending and to processed; the save of line 274 is the next step.
LbTrackRec ==
  /\ ppc["lb"] = "rec" /\ mode = "track"
  /\ todo["lb"] # <<>>
  /\ LET mbid == Head(todo["lb"]) IN
     \E item \in BOOLEAN :
       IF mbid \notin dedup["lb"] /\ item
       THEN /\ qfile' = Written(add_pending(Opened(qfile), DEFAULT_QUEUE,
                                            TrackEntry(mbid)).queue)
            /\ dedup' = [dedup EXCEPT !["lb"] = @ \cup {mbid}]
            /\ ppc' = [ppc EXCEPT !["lb"] = "save"]
            /\ UNCHANGED todo
       ELSE /\ todo' = [todo EXCEPT !["lb"] = Tail(@)]
            /\ UNCHANGED <<qfile, dedup, ppc>>
  /\ UNCHANGED <<wfile, mode, rejected_mbids, pending_mbids, seen_albums,
                 albums, dedupfile, runs, apc, api_mbids, to_approve, napi,
                 callvars>>

\* lb_fetch.main lines 277-323, album mode and manual approval: the album of
\* the recording is skipped if seen in this run, processed, in the run's
\* rejected_mbids or in the run's pending_mbids; otherwise it is added to
\* pending, to pending_mbids and to processed; the save of line 324 is the
\* next step.
LbAlbumRec ==
  /\ ppc["lb"] = "rec" /\ mode = "album"
  /\ todo["lb"] # <<>>
  /\ LET album_mbid == AlbumOf(Head(todo["lb"])) IN
     \E item \in BOOLEAN :
       /\ seen_albums' = IF item THEN seen_albums \cup {album_mbid} ELSE seen_albums
       /\ IF /\ item
             /\ album_mbid \notin seen_albums
             /\ album_mbid \notin dedup["lb"]
             /\ album_mbid \notin rejected_mbids["lb"]
             /\ album_mbid \notin pending_mbids
          THEN /\ qfile' = Written(add_pending(Opened(qfile), DEFAULT_QUEUE,
                                               AlbumEntry(album_mbid)).queue)
               /\ pending_mbids' = pending_mbids \cup {album_mbid}
               /\ dedup' = [dedup EXCEPT !["lb"] = @ \cup {album_mbid}]
               /\ ppc' = [ppc EXCEPT !["lb"] = "save"]
               /\ UNCHANGED todo
          ELSE /\ todo' = [todo EXCEPT !["lb"] = Tail(@)]
               /\ UNCHANGED <<qfile, pending_mbids, dedup, ppc>>
  /\ UNCHANGED <<wfile, mode, rejected_mbids, albums, dedupfile, runs, apc,
                 api_mbids, to_approve, napi, callvars>>

\* lb_fetch.main lines 331-336: the recommendations are exhausted.
LbDone ==
  /\ ppc["lb"] = "rec"
  /\ todo["lb"] = <<>>
  /\ Finish("lb")
  /\ pending_mbids' = {}
  /\ seen_albums' = {}
  /\ UNCHANGED <<qfile, wfile, mode, albums, dedupfile, apc, api_mbids,
                 to_approve, napi, callvars>>

\* Between two runs the producer's dedup file (catalog_discovered.json,
\* processed.json) is deleted or damaged; load_json_file (lines 30-42) and
\* load_processed (lines 26-35) then start from an empty set.
DedupLost(prod) ==
  /\ ppc[prod] = "idle"
  /\ dedupfile[prod] # {}
  /\ dedupfile' = [dedupfile EXCEPT ![prod] = {}]
  /\ UNCHANGED <<qfile, wfile, ppc, mode, rejected_mbids, pending_mbids, dedup,
                 seen_albums, todo, albums, runs, apc, api_mbids, to_approve,
                 napi, callvars>>

\* QueueManager.approve, lines 47-48: queue = load_queue(); to_approve = the
\* pending items whose mbid is in mbids.
ApiApproveLoad(mbids) ==
  /\ apc = "idle"
  /\ napi < MaxApiCalls
  /\ napi' = napi + 1
  /\ api_mbids' = mbids
  /\ to_approve' = SelectSeq2(load_queue(Opened(qfile)).pending, mbids)
  /\ qfile' = IF qfile.kind = "none" THEN JsonContent(DEFAULT_QUEUE) ELSE qfile
  /\ apc' = "approve"
  /\ UNCHANGED <<wfile, ppc, mode, rejected_mbids, pending_mbids, dedup,
                 seen_albums, todo, albums, dedupfile, runs, callvars>>

\* QueueManager.approve, lines 50-51 and 54: count = approve_items(mbids),
\* which approve returns, at once when it is 0.
ApiApproveItems ==
  /\ apc = "approve"
  /\ LET r == approve_items(Opened(qfile), DEFAULT_QUEUE, api_mbids) IN
     /\ qfile' = Written(r.queue)
     /\ aret' = r.count
     /\ apc' = IF r.count > 0 THEN "wish" ELSE "idle"
     /\ to_approve' = IF r.count > 0 THEN to_approve ELSE <<>>
     /\ api_mbids' = IF r.count > 0 THEN api_mbids ELSE {}
  /\ UNCHANGED <<wfile, ppc, mode, rejected_mbids, pending_mbids, dedup,
                 seen_albums, todo, albums, dedupfile, runs, napi, callcore>>

\* QueueManager.approve, lines 51-54: process_approved_to_wishlist(to_approve).
ApiApproveWish ==
  /\ apc = "wish"
  /\ wfile' = wfile \o process_approved_to_wishlist(to_approve)
  /\ apc' = "idle"
  /\ to_approve' = <<>>
  /\ api_mbids' = {}
  /\ UNCHANGED <<qfile, ppc, mode, rejected_mbids, pending_mbids, dedup,
                 seen_albums, todo, albums, dedupfile, runs, napi, callvars>>

\* QueueManager.reject, lines 62-64: reject_items(mbids).
ApiReject(mbids) ==
  /\ apc = "idle"
  /\ napi < MaxApiCalls
  /\ napi' = napi + 1
  /\ qfile' = Written(reject_items(Opened(qfile), DEFAULT_QUEUE, mbids).queue)
  /\ UNCHANGED <<wfile, ppc, mode, rejected_mbids, pending_mbids, dedup,
                 seen_albums, todo, albums, dedupfile, runs, apc, api_mbids,
                 to_approve, callvars>>

\* QueueManager.approve_all, lines 58-59: queue = load_queue(); mbids = the
\* mbid of every pending item that has one.
ApiApproveAll ==
  /\ apc = "idle"
  /\ napi < MaxApiCalls
  /\ napi' = napi + 1
  /\ api_mbids' = {m \in MbidsOf(load_queue(Opened(qfile)).pending) : m # ""}
  /\ qfile' = IF qfile.kind = "none" THEN JsonContent(DEFAULT_QUEUE) ELSE qfile
  /\ apc' = "all"
  /\ UNCHANGED <<wfile, ppc, mode, rejected_mbids, pending_mbids, dedup,
                 seen_albums, todo, albums, dedupfile, runs, to_approve,
                 callvars>>

\* QueueManager.approve_all, line 60: self.approve(mbids), whose lines 47-48
\* load the queue again.
ApiApproveAllCall ==
  /\ apc = "all"
  /\ to_approve' = SelectSeq2(load_queue(Opened(qfile)).pending, api_mbids)
  /\ apc' = "approve"
  /\ UNCHANGED <<qfile, wfile, ppc, mode, rejected_mbids, pending_mbids, dedup,
                 seen_albums, todo, albums, dedupfile, runs, api_mbids, napi,
                 callvars>>

\* A producer's process dies between two of its steps (killed, or an
\* exception that main does not catch); its locals are gone, the files stay
\* as they are, and the scheduler starts the next run later.
Crash(prod) ==
  /\ ppc[prod] # "idle"
  /\ Finish(prod)
  /\ IF prod = "lb"
     THEN pending_mbids' = {} /\ seen_albums' = {} /\ UNCHANGED albums
     ELSE albums' = <<>> /\ UNCHANGED <<pending_mbids, seen_albums>>
  /\ UNCHANGED <<qfile, wfile, mode, dedupfile, apc, api_mbids, to_approve,
                 napi, callvars>>

\* The identifiers a request of the UI can name.
ApiMbids == {{"m1"}, {"m2"}}

\* The steps of a producer's run.
RunStep ==
  \/ CatNoLibrary
  \/ CatStart \/ CatRank \/ CatArtist \/ CatAlbum \/ CatArtistDone
  \/ \E m \in Modes : LbStart(m)
  \/ LbLoad \/ LbTrackRec \/ LbAlbumRec \/ LbDone
  \/ \E prod \in Producers : ProdRejected(prod) \/ ProdDrain(prod) \/ ProdSave(prod)

ProdNext ==
  \/ CatNoLibrary
  \/ CatStart \/ CatRank \/ CatArtist \/ CatAlbum \/ CatArtistDone
  \/ \E m \in Modes : LbStart(m)
  \/ LbLoad \/ LbTrackRec \/ LbAlbumRec \/ LbDone
  \/ \E prod \in Producers : ProdRejected(prod) \/ ProdDrain(prod) \/ ProdSave(prod)
  \/ \E prod \in Producers : DedupLost(prod)
  \/ \E prod \in Producers : Crash(prod)
  \/ \E mbids \in ApiMbids : ApiApproveLoad(mbids) \/ ApiReject(mbids)
  \/ ApiApproveItems \/ ApiApproveWish

ProdSpec == SeqInit /\ [][ProdNext]_vars

\* ===================================================================
\* DrainSpec: the producers' runs on a queue that earlier requests left
\* ===================================================================
\* The runs return: no process is killed, and no request of the UI arrives,
\* so that approved holds what the queue file started with until a run
\* drains it.
DrainSpec == Init /\ [][RunStep]_vars

\* ===================================================================
\* ApproveAllSpec: one "approve all" request of the UI
\* ===================================================================
\* An album whose release group came without an id (fetch_artist_albums,
\* line 241: rg.get("id", "")) is added to pending with the mbid ""
\* (catalog_discovery.main, lines 417 and 432-443).
I0 == [mbid |-> "", artist |-> "A", title |-> "T0", type |-> "album",
       source |-> "catalog"]

\* The queue files the request may find: those of InitFiles, and each of
\* them with such an album pending as well.
ApproveAllFiles ==
  InitFiles \cup {JsonContent([q EXCEPT !.pending = Append(@, I0)]) : q \in InitQueues}

ApproveAllNext ==
  \/ ApiApproveAll
  \/ ApiApproveAllCall
  \/ ApiApproveItems
  \/ ApiApproveWish

ApproveAllInit == qfile \in ApproveAllFiles /\ InitRest

ApproveAllSpec == ApproveAllInit /\ [][ApproveAllNext]_vars

\* ===================================================================
\* RaceSpec: one approve request of the UI while other processes write
\* ===================================================================
\* Another process (a producer, another worker of the API) makes one call of
\* queue.py under its own exclusive lock, between two steps of the request:
\* add_pending (lines 112-120), approve_items (123-151) or reject_items
\* (154-186).  The queue holds at most MaxItems items.
PeerCalls ==
  {c \in QueueCalls : c.op \in {"add", "approve", "reject"}}

PeerWrite(c) ==
  /\ LET queue_ == Opened(qfile) IN
     /\ c.op = "add" => Len(queue_.pending) + Len(queue_.approved) < MaxItems
     /\ qfile' = Written(
          CASE c.op = "add" -> add_pending(queue_, DEFAULT_QUEUE, c.item).queue
            [] c.op = "approve" -> approve_items(queue_, DEFAULT_QUEUE, c.mbids).queue
            [] c.op = "reject" -> reject_items(queue_, DEFAULT_QUEUE, c.mbids).queue)
  /\ UNCHANGED <<wfile, prodvars, callcore>>

\* The identifiers one request can name: any non-empty selection.
RaceMbids == (SUBSET Mbids) \ {{}}

RaceNext ==
  \/ \E mbids \in RaceMbids : ApiApproveLoad(mbids)
  \/ ApiApproveItems
  \/ ApiApproveWish
  \/ \E c \in PeerCalls : PeerWrite(c)

RaceSpec == Init /\ [][RaceNext]_vars

\* ===================================================================
\* AuthSpec: the requests of the UI through AuthMiddleware
\* ===================================================================
\* auth.py line 12.
EXCLUDED_PATHS == {<<"health">>, <<"docs">>, <<"openapi.json">>, <<"redoc">>}

\* request.url.path.startswith("/api/") (line 26): the first segment is
\* "api" and a slash follows it.
StartsWithApi(path) == Len(path) >= 2 /\ path[1] = "api"

\* _validate_basic_auth, lines 46-65: the header starts with "Basic ", its
\* payload decodes to "username:password", and both equal the configured
\* values.
validate_basic_auth(request, auth_settings) ==
  LET auth_header == request.authorization IN
  IF auth_header.scheme # "Basic" THEN FALSE
  ELSE IF ~auth_header.decodes THEN FALSE
  ELSE /\ auth_header.username = auth_settings.username
       /\ auth_header.password = auth_settings.password

\* _validate_api_key_auth, lines 67-83: a Bearer token equal to the key, or
\* a non-empty X-API-Key header equal to the key.
validate_api_key_auth(request, auth_settings) ==
  LET expected_key == auth_settings.api_key
      auth_header == request.authorization IN
  \/ auth_header.scheme = "Bearer" /\ auth_header.token = expected_key
  \/ request.x_api_key # "" /\ request.x_api_key = expected_key

\* _validate_proxy_auth, lines 85-88: a non-empty Remote-User header.
validate_proxy_auth(request) == request.remote_user # ""

\* The routes of main.py lines 42-48 and routers/queue.py: the handler that
\* call_next runs for a path.
QueuePaths ==
  {<<"api", "v1", "queue", h>> : h \in {"pending", "approve", "reject"}}

call_next(request) ==
  [status |-> 200,
   handler |-> IF request.path \in QueuePaths THEN request.path[4]
               ELSE IF request.path = <<"health">> THEN "health"
               ELSE "static"]

\* _unauthorized_response, lines 90-105.
unauthorized_response == [status |-> 401, handler |-> "none"]

\* AuthMiddleware.dispatch, lines 20-44.
dispatch(request, auth_settings) ==
  IF request.path \in EXCLUDED_PATHS THEN call_next(request)
  ELSE IF ~StartsWithApi(request.path) THEN call_next(request)
  ELSE IF ~auth_settings.enabled THEN call_next(request)
  ELSE IF auth_settings.type = "basic" /\ ~validate_basic_auth(request, auth_settings)
       THEN unauthorized_response
  ELSE IF auth_settings.type = "api_key" /\ ~validate_api_key_auth(request, auth_settings)
       THEN unauthorized_response
  ELSE IF auth_settings.type = "proxy" /\ ~validate_proxy_auth(request)
       THEN unauthorized_response
  ELSE call_next(request)

\* config.py lines 10-15: the settings a configuration file can give.
AuthSettings ==
  [enabled : BOOLEAN, type : {"basic", "api_key", "proxy", "none"},
   username : {"", "u"}, password : {"", "p"}, api_key : {"", "k"}]

\* The requests: the queue's routes, the health check, a static file and
\* "/api" itself; an Authorization header that is absent, Basic with a
\* payload that decodes or not, or Bearer with a token (the server strips a
\* header's value, so a token is never empty).
AuthPaths ==
  QueuePaths \cup {<<"health">>, <<"index.html">>, <<"api">>}
Authorizations ==
  {NoAuthorization}
  \cup {[NoAuthorization EXCEPT !.scheme = "Basic"]}
  \cup {[NoAuthorization EXCEPT !.scheme = "Basic", !.decodes = TRUE,
                                !.username = u, !.password = w] :
          u \in {"", "u", "x"}, w \in {"", "p"}}
  \cup {[NoAuthorization EXCEPT !.scheme = "Bearer", !.token = t] : t \in {"k", "x"}}
AuthRequests ==
  [path : AuthPaths, authorization : Authorizations,
   x_api_key : {"", "k", "x"}, remote_user : {"", "alice"}]

\* main.py lines 37-39: the app starts with the settings of the
\* configuration file.
AppStart(auth_settings) ==
  /\ authpc = "off"
  /\ asettings' = auth_settings
  /\ authpc' = "up"
  /\ UNCHANGED <<areq, aresp, authrest>>

\* A request arrives.  The middleware keeps nothing from one request to the
\* next, so one request per start is followed.
AuthRequest(request) ==
  /\ authpc = "up"
  /\ areq' = request
  /\ aresp' = NoResponse
  /\ authpc' = "received"
  /\ UNCHANGED <<asettings, authrest>>

\* The app answers: through the middleware when main.py line 39 added it.
AuthAnswer ==
  /\ authpc = "received"
  /\ aresp' = IF asettings.enabled THEN dispatch(areq, asettings)
              ELSE call_next(areq)
  /\ authpc' = "answered"
  /\ UNCHANGED <<asettings, areq, authrest>>

AuthNext ==
  \/ \E auth_settings \in AuthSettings : AppStart(auth_settings)
  \/ \E request \in AuthRequests : AuthRequest(request)
  \/ AuthAnswer

AuthSpec == SeqInit /\ [][AuthNext]_vars

\* ===================================================================
\* TextSpec: the wishlist file as text, written and parsed back
\* ===================================================================
\* A string is a sequence of characters.  The characters that matter to the
\* encoding: the double quote, the backslash, the blank, the hyphen, and one
\* ordinary letter.
Chars == {"x", "\"", "\\", " ", "-"}
Strs(n) == UNION {[1..k -> Chars] : k \in 0..n}
Quote == <<"\"">>
Separator == <<" ", "-", " ">>

StartsWith(s, p) == Len(p) <= Len(s) /\ SubSeq(s, 1, Len(p)) = p
EndsWith(s, p) == Len(p) <= Len(s) /\ SubSeq(s, Len(s) - Len(p) + 1, Len(s)) = p

\* str.replace(old, new): every non-overlapping occurrence, left to right.
RECURSIVE Replace(_, _, _)
Replace(s, old, new) ==
  IF Len(s) < Len(old) THEN s
  ELSE IF StartsWith(s, old)
       THEN new \o Replace(SubSeq(s, Len(old) + 1, Len(s)), old, new)
       ELSE <<Head(s)>> \o Replace(Tail(s), old, new)

\* The index of the last occurrence of pat in s, 0 if there is none.
FindLast(s, pat) ==
  LET I == {i \in 1..(Len(s) - Len(pat) + 1) : SubSeq(s, i, i + Len(pat) - 1) = pat} IN
  IF I = {} THEN 0 ELSE CHOOSE i \in I : \A j \in I : i >= j

\* The index of the first occurrence of pat in s, 0 if there is none.
Find(s, pat) ==
  LET I == {i \in 1..(Len(s) - Len(pat) + 1) : SubSeq(s, i, i + Len(pat) - 1) = pat} IN
  IF I = {} THEN 0 ELSE CHOOSE i \in I : \A j \in I : i <= j

\* str.strip(): whitespace removed at both ends.
RECURSIVE LStrip(_)
LStrip(s) == IF s # <<>> /\ Head(s) = " " THEN LStrip(Tail(s)) ELSE s
RECURSIVE RStrip(_)
RStrip(s) ==
  IF s # <<>> /\ s[Len(s)] = " " THEN RStrip(SubSeq(s, 1, Len(s) - 1)) ELSE s
Strip(s) == RStrip(LStrip(s))

\* wishlist.py lines 74-76.
escape_quotes(text) == Replace(text, Quote, <<"\\", "\"">>)

\* wishlist.py lines 92-96 (and 138-142): the line, without its newline.
WishText(artist, title, is_album) ==
  (IF is_album THEN <<"a", ":">> ELSE <<>>)
    \o Quote \o escape_quotes(artist) \o Separator \o escape_quotes(title) \o Quote

\* append_to_wishlist, lines 92-99: the line is written whatever artist and
\* title are.
append_to_wishlist(artist, title, is_album) == <<WishText(artist, title, is_album)>>

\* process_approved_to_wishlist, lines 117-148, on items whose strings are
\* spelled out: is_album stands for the item having the key 'album'.
RECURSIVE batch_lines(_)
batch_lines(approved_items) ==
  IF approved_items = <<>> THEN <<>>
  ELSE LET item == Head(approved_items)
           rest == batch_lines(Tail(approved_items)) IN
       IF item.artist = <<>> \/ item.title = <<>> THEN rest
       ELSE <<WishText(item.artist, item.title, item.is_album)>> \o rest

\* slskd_downloader.parse_wishlist, lines 45-71: one line of the file.
parse_line(text) ==
  LET line1 == Strip(text)
      is_album == StartsWith(line1, <<"a", ":">>)
      line2 == IF is_album THEN SubSeq(line1, 3, Len(line1)) ELSE line1
      line3 == IF StartsWith(line2, Quote) /\ EndsWith(line2, Quote)
               THEN SubSeq(line2, 2, Len(line2) - 1) ELSE line2
      line4 == Replace(line3, <<"\\", "\"">>, Quote)
      at == Find(line4, Separator) IN
  IF line1 = <<>> \/ at = 0 THEN <<>>
  ELSE <<[artist |-> Strip(SubSeq(line4, 1, at - 1)),
          title |-> Strip(SubSeq(line4, at + 3, Len(line4))),
          is_album |-> is_album,
          raw |-> line4]>>

\* slskd_downloader.parse_wishlist, lines 37-73.
RECURSIVE parse_wishlist(_)
parse_wishlist(lines) ==
  IF lines = <<>> THEN <<>>
  ELSE parse_line(Head(lines)) \o parse_wishlist(Tail(lines))

\* The inputs: one entry of any strings up to MaxLen characters, or a batch
\* of up to MaxBatch items whose artist and title are empty or not.
TextItem(artist, title, is_album) ==
  [artist |-> artist, title |-> title, is_album |-> is_album]
SingleInputs ==
  {<<TextItem(a, t, b)>> : a \in Strs(MaxLen), t \in Strs(MaxLen), b \in BOOLEAN}
BatchItems ==
  {TextItem(a, t, b) : a \in {<<>>, <<"x">>}, t \in {<<>>, <<"x", "x">>}, b \in BOOLEAN}
BatchInputs == UNION {[1..k -> BatchItems] : k \in 0..MaxBatch}

\* A caller hands an entry to append_to_wishlist or a batch to
\* process_approved_to_wishlist; the wishlist is empty.
TextCall(op, items) ==
  /\ tpc = "off"
  /\ top' = op
  /\ tin' = items
  /\ tpc' = "called"
  /\ UNCHANGED <<tfile, tcount, tout, sysvars, readvars, scorevars>>

\* append_to_wishlist returns.
TextAppend ==
  /\ tpc = "called" /\ top = "append"
  /\ tfile' = tfile \o append_to_wishlist(tin[1].artist, tin[1].title, tin[1].is_album)
  /\ tpc' = "written"
  /\ UNCHANGED <<top, tin, tcount, tout, sysvars, readvars, scorevars>>

\* process_approved_to_wishlist returns its count.
TextBatch ==
  /\ tpc = "called" /\ top = "batch"
  /\ tfile' = tfile \o batch_lines(tin)
  /\ tcount' = Len(batch_lines(tin))
  /\ tpc' = "written"
  /\ UNCHANGED <<top, tin, tout, sysvars, readvars, scorevars>>

\* parse_wishlist reads the file back.
TextParse ==
  /\ tpc = "written"
  /\ tout' = parse_wishlist(tfile)
  /\ tpc' = "parsed"
  /\ UNCHANGED <<top, tin, tfile, tcount, sysvars, readvars, scorevars>>

TextNext ==
  \/ tpc = "off" /\ \E items \in SingleInputs : TextCall("append", items)
  \/ tpc = "off" /\ \E items \in BatchInputs : TextCall("batch", items)
  \/ TextAppend \/ TextBatch \/ TextParse

TextSpec == SeqInit /\ [][TextNext]_vars

\* ===================================================================
\* ParseSpec: parse_wishlist on a wishlist of any lines
\* ===================================================================
\* wishlist.txt is a plain text file: a line of it is any text, with or
\* without the a: prefix and the quotes the writers put around an entry.
RawLine(is_album, quoted, body) ==
  (IF is_album THEN <<"a", ":">> ELSE <<>>)
    \o (IF quoted THEN Quote \o body \o Quote ELSE body)

\* The other line of a file of two lines: blank, without a separator, or
\* an entry.
OtherLines == {<<>>, <<"x", "-", "x">>, WishText(<<"x">>, <<"x">>, TRUE)}

\* The file holds the lines; nothing was handed to a writer.
TextFile(lines) ==
  /\ tpc = "off"
  /\ top' = "file"
  /\ tfile' = lines
  /\ tpc' = "written"
  /\ UNCHANGED <<tin, tcount, tout, sysvars, readvars, scorevars>>

ParseNext ==
  \/ tpc = "off" /\ \E is_album \in BOOLEAN, quoted \in BOOLEAN, k \in 0..MaxRaw :
                      \E body \in [1..k -> Chars] :
                        \/ TextFile(<<RawLine(is_album, quoted, body)>>)
                        \/ \E other \in OtherLines :
                             \/ TextFile(<<other, RawLine(is_album, quoted, body)>>)
                             \/ TextFile(<<RawLine(is_album, quoted, body), other>>)
  \/ TextParse

ParseSpec == SeqInit /\ [][ParseNext]_vars

\* ===================================================================
\* ReadSpec: the downloader parses the wishlist while a drain appends to it
\* ===================================================================
\* slskd_downloader.parse_wishlist, lines 39-44: the file is opened with a
\* plain open(); no flock is taken.
ParseOpen ==
  /\ rpc = "idle"
  /\ rpc' = "reading"
  /\ rseen' = <<>>
  /\ UNCHANGED <<sysvars, textvars, scorevars>>

\* parse_wishlist, line 45: `for line in f` reads on from the reader's
\* position whatever the file holds now; a read that finds nothing more is
\* the end of the file, and parse_wishlist returns.
ParseRead ==
  /\ rpc = "reading"
  /\ IF Len(rseen) < Len(wfile)
     THEN /\ rseen' = wfile
          /\ UNCHANGED rpc
     ELSE /\ rpc' = "done"
          /\ UNCHANGED rseen
  /\ UNCHANGED <<sysvars, textvars, scorevars>>

\* The steps of a process_approved_queue call.
DrainStep(p) ==
  \/ QueueExists(p) \/ QueueCreate(p) \/ QueueLock(p) \/ QueueRead(p)
  \/ ProcessApprovedQueue(p)
  \/ WishLock(p) \/ WishBody(p) \/ WishUnlock(p) \/ WishClose(p)
  \/ QueueWriteBack(p) \/ QueueUnlock(p) \/ QueueClose(p)
  \/ QueueCloseRaised(p)

\* Process 1 drains the approved items into the wishlist; the downloader
\* parses the wishlist.
ReadNext ==
  \/ done[1] < MaxCalls /\ Begin(1, Call("drain", NoItem, {}))
  \/ DrainStep(1)
  \/ ParseOpen \/ ParseRead

ReadSpec == Init /\ [][ReadNext]_vars

\* ===================================================================
\* ScoreSpec: slskd_downloader.search_album on the responses of a search
\* ===================================================================
\* A file of a response: dir is its path up to the last separator (lines
\* 128-132), ext its extension in lower case (lines 141-144, 156).
AlbumExts == {"mp3", "flac", "m4a", "ogg", "wav"}

\* lines 305-308 with '.wav' among the extensions.
TrackExtsWithWav == {"mp3", "flac", "m4a", "ogg", "wav"}

\* lines 305-308: the extensions of the track branch.
TrackExts == {"mp3", "flac", "m4a", "ogg"}

\* str.lower() on the letters used in paths and names.
Lower(c) == CASE c = "A" -> "a" [] c = "B" -> "b" [] OTHER -> c
LowerStr(s) == [i \in 1..Len(s) |-> Lower(s[i])]

\* `needle.lower() in path.lower()`.
ContainsLower(path, needle) == Find(LowerStr(path), LowerStr(needle)) # 0

\* lines 126-136: the directories of a response in the order of their first
\* file (a dict keeps insertion order), and the files of one directory.
RECURSIVE DirsOf(_)
DirsOf(files) ==
  IF files = <<>> THEN <<>>
  ELSE LET rest == DirsOf(SubSeq(files, 1, Len(files) - 1))
           d == files[Len(files)].dir IN
       IF d \in Range(rest) THEN rest ELSE Append(rest, d)
FilesIn(files, dir_path) == SelectSeq(files, LAMBDA f : f.dir = dir_path)

\* line 168 with the comparison turned into >=.
SpeedBonusFromLimit(upload_speed) == IF upload_speed >= 1000000 THEN 20 ELSE 0

\* lines 167-169.
SpeedBonus(upload_speed) == IF upload_speed > 1000000 THEN 20 ELSE 0

\* lines 141-183: one directory of one response, scored.
Scored(response, dir_path, artist, album) ==
  LET dir_files == FilesIn(response.files, dir_path)
      audio_files == SelectSeq(dir_files, LAMBDA f : f.ext \in AlbumExts)
      flac_count == Len(SelectSeq(audio_files, LAMBDA f : f.ext = "flac"))
      score == Len(audio_files) * 10
               + flac_count * 5
               + (IF ContainsLower(dir_path, artist) THEN 50 ELSE 0)
               + (IF ContainsLower(dir_path, album) THEN 50 ELSE 0)
               + SpeedBonus(response.uploadSpeed)
               + (IF response.hasFreeUploadSlot THEN 30 ELSE 0) IN
  [username |-> response.username, directory |-> dir_path,
   files |-> audio_files, all_files |-> dir_files, score |-> score]

\* line 146 letting a directory through that is one audio file short.
EnoughButOne(audio_files, min_files) == Len(audio_files) + 1 >= min_files

\* line 146: if len(audio_files) < min_files: continue.
Enough(audio_files, min_files) == Len(audio_files) >= min_files

\* lines 118-147: the directories that reach the scoring, in the order the
\* two loops evaluate them; a directory with fewer than min_files audio
\* files is passed over.
RECURSIVE Candidates(_, _, _, _)
Candidates(responses, artist, album, min_files) ==
  IF responses = <<>> THEN <<>>
  ELSE LET response == Head(responses)
           dirs == DirsOf(response.files)
           scored == [i \in 1..Len(dirs) |-> Scored(response, dirs[i], artist, album)] IN
       SelectSeq(scored, LAMBDA c : Enough(c.files, min_files))
         \o Candidates(Tail(responses), artist, album, min_files)

\* best_match = None (line 115).
NoMatch ==
  [username |-> "", directory |-> <<>>, files |-> <<>>, all_files |-> <<>>,
   score |-> 0]

\* line 175 with the comparison turned into >=.
BetterOrEqual(score, best_score) == score >= best_score

\* line 175: if score > best_score.
Better(score, best_score) == score > best_score

\* lines 115-116 and 175-183: the running best over the candidates.
RECURSIVE BestOf(_, _)
BestOf(cands, best_match) ==
  IF cands = <<>> THEN best_match
  ELSE BestOf(Tail(cands),
              IF Better(Head(cands).score, best_match.score)
              THEN Head(cands) ELSE best_match)

\* search_album, lines 108-194, on the responses the search returned.
search_album(artist, album, min_files, responses) ==
  BestOf(Candidates(responses, artist, album, min_files), NoMatch)

\* The inputs: up to MaxResp responses of up to MaxFiles files each.
DirPaths == {<<"a", "b">>, <<"x", "A">>, <<"x">>}
FileKinds == {[dir |-> d, ext |-> x] : d \in DirPaths, x \in {"flac", "mp3", "jpg"}}
FileLists == UNION {[1..k -> FileKinds] : k \in 0..MaxFiles}
Peers == <<"u1", "u2", "u3">>
Response(i, body) ==
  [username |-> Peers[i], files |-> body[1], uploadSpeed |-> body[2],
   hasFreeUploadSlot |-> body[3]]
ResponseBodies == FileLists \X {1000000, 1000001} \X BOOLEAN
ScoreInput(min_files, bodies) ==
  [artist |-> <<"A">>, album |-> <<"b">>, min_files |-> min_files,
   responses |-> [i \in 1..Len(bodies) |-> Response(i, bodies[i])]]

\* search_album is called with the responses of a search.
ScoreCall(input) ==
  /\ spc = "off"
  /\ sin' = input
  /\ spc' = "called"
  /\ UNCHANGED <<sout, sysvars, textvars, readvars>>

\* search_album returns.
ScoreReturn ==
  /\ spc = "called"
  /\ sout' = search_album(sin.artist, sin.album, sin.min_files, sin.responses)
  /\ spc' = "returned"
  /\ UNCHANGED <<sin, sysvars, textvars, readvars>>

ScoreNext ==
  \/ spc = "off" /\ \E m \in 0..MaxFiles, k \in 0..MaxResp :
                      \E bodies \in [1..k -> ResponseBodies] :
                        ScoreCall(ScoreInput(m, bodies))
  \/ ScoreReturn

ScoreSpec == SeqInit /\ [][ScoreNext]_vars

\* ===================================================================
\* DownSpec: slskd_downloader.main, run twice on one wishlist
\* ===================================================================
\* load_downloaded returning an empty set whatever the file holds.
load_downloaded_empty(file) == {}

\* load_downloaded, lines 18-26: no file, or a file json cannot decode,
\* gives the empty set.
load_downloaded(file) == IF file.kind = "json" THEN file.keys ELSE {}

\* save_downloaded, lines 29-34.
save_downloaded(keys) == [kind |-> "json", keys |-> keys]

\* No response has an audio file, or search_album returned None.
NoRequest == [username |-> "", files |-> <<>>]

\* lines 304-308: the files of a response the track branch accepts.
TrackAudio(response) == SelectSeq(response.files, LAMBDA f : f.ext \in TrackExts)

\* lines 301-316: the loop over the responses ends at the first one with
\* audio files (the break of line 316), whatever download_folder returned;
\* the request is for audio_files[0] only.
RECURSIVE TrackRequest(_)
TrackRequest(responses) ==
  IF responses = <<>> THEN NoRequest
  ELSE LET audio_files == TrackAudio(Head(responses)) IN
       IF audio_files # <<>>
       THEN [username |-> Head(responses).username, files |-> <<audio_files[1]>>]
       ELSE TrackRequest(Tail(responses))

\* lines 268-278: the album branch asks for all files of the directory
\* search_album returned.
AlbumRequest(item, min_files, responses) ==
  LET result == search_album(item.artist, item.title, min_files, responses) IN
  IF result = NoMatch THEN NoRequest
  ELSE [username |-> result.username, files |-> result.all_files]

\* lines 266-316: what the loop asks download_folder for, for one item.
RequestFor(item) ==
  IF item.is_album
  THEN AlbumRequest(item, din.min_album_tracks, din.responses)
  ELSE TrackRequest(din.responses)

\* main, lines 224-258: the set is loaded, the wishlist parsed; an empty
\* wishlist ends the run.
DownBegin(input) ==
  LET items == parse_wishlist(input.lines) IN
  /\ din' = input
  /\ downloaded' = load_downloaded(downfile)
  /\ ditems' = items
  /\ di' = 1
  /\ drun' = drun + 1
  /\ dpc' = IF items = <<>> THEN "done" ELSE "loop"
  /\ dprev' = dout
  /\ dout' = [i \in 1..Len(items) |-> "pending"]
  /\ dunpaused' = 0
  /\ UNCHANGED <<downfile, dreq, dkilled, downrest>>

\* The first run, on some wishlist and with some responses to its searches.
DownFirst(input) ==
  /\ dpc = "off"
  /\ DownBegin(input)

\* The next scheduled run: the wishlist is unchanged and the searches
\* return the same responses.
DownAgain ==
  /\ dpc = "done"
  /\ drun < MaxDownRuns
  /\ DownBegin(din)

\* An exception of the search that nothing catches: the run is over.
AfterUncaught == "done"

\* lines 196-198 and 323-324: the exception of a search is caught and
\* logged; the loop goes on at line 327.
AfterSearchRaised == "pause"

\* download_folder returned False and the loop went back to its head, the
\* item not left behind and line 327 not passed.
AfterFailureAtOnce == "loop"

\* lines 278-283 and 312-316: download_folder returned False; the branch is
\* left and the loop goes on at line 327.
AfterFailure == "pause"

\* The loop is at an item whose key is not in downloaded (lines 260-264).
AtItem ==
  /\ dpc = "loop"
  /\ di <= Len(ditems)
  /\ ditems[di].raw \notin downloaded

\* lines 261-264: the key is in downloaded; continue, without the sleep of
\* line 327.
DownSkip ==
  /\ dpc = "loop"
  /\ di <= Len(ditems)
  /\ ditems[di].raw \in downloaded
  /\ di' = di + 1
  /\ dout' = [dout EXCEPT ![di] = "skipped"]
  /\ UNCHANGED <<dpc, din, downloaded, downfile, ditems, drun, dreq, dkilled,
                 dprev, dunpaused, downrest>>

\* lines 276-283 and 301-316: the search was made; no result for an album,
\* no response with an audio file for a track.
DownNoMatch ==
  /\ AtItem
  /\ RequestFor(ditems[di]) = NoRequest
  /\ dunpaused' = dunpaused + 1
  /\ dout' = [dout EXCEPT ![di] = "nomatch"]
  /\ dpc' = "pause"
  /\ UNCHANGED <<din, downloaded, downfile, ditems, di, drun, dreq, dkilled,
                 dprev, downrest>>

\* A call of the search raised: search_album catches it and returns None
\* (lines 196-198), the track branch catches it at lines 323-324.
DownSearchRaised ==
  /\ AtItem
  /\ dunpaused' = dunpaused + 1
  /\ dout' = [dout EXCEPT ![di] = "raised"]
  /\ dpc' = AfterSearchRaised
  /\ UNCHANGED <<din, downloaded, downfile, ditems, di, drun, dreq, dkilled,
                 dprev, downrest>>

\* lines 278 and 312, download_folder (lines 201-221): the search was made
\* and the transfer request is made; it is accepted (True) or raises (False),
\* and after a failure the loop goes on to the next item.
DownEnqueue(ok) ==
  /\ AtItem
  /\ LET request == RequestFor(ditems[di]) IN
     /\ request # NoRequest
     /\ dreq' = Append(dreq, [run |-> drun, line |-> di, username |-> request.username,
                              files |-> request.files, ok |-> ok])
  /\ dunpaused' = dunpaused + 1
  /\ dout' = [dout EXCEPT ![di] = IF ok THEN "queued" ELSE "failed"]
  /\ dpc' = IF ok THEN "queued" ELSE AfterFailure
  /\ UNCHANGED <<din, downloaded, downfile, ditems, di, drun, dkilled, dprev,
                 downrest>>

\* lines 279 and 313: downloaded.add(key).
DownAdd ==
  /\ dpc = "queued"
  /\ downloaded' = downloaded \cup {ditems[di].raw}
  /\ dpc' = "added"
  /\ UNCHANGED <<din, downfile, ditems, di, drun, dreq, dkilled, dout, dprev,
                 dunpaused, downrest>>

\* lines 280 and 314: save_downloaded(downloaded).
DownSave ==
  /\ dpc = "added"
  /\ downfile' = save_downloaded(downloaded)
  /\ dout' = [dout EXCEPT ![di] = "downloaded"]
  /\ dpc' = "pause"
  /\ UNCHANGED <<din, downloaded, ditems, di, drun, dreq, dkilled, dprev,
                 dunpaused, downrest>>

\* line 327: time.sleep(2), then the next item.
DownPause ==
  /\ dpc = "pause"
  /\ dunpaused' = 0
  /\ di' = di + 1
  /\ dpc' = "loop"
  /\ UNCHANGED <<din, downloaded, downfile, ditems, drun, dreq, dkilled, dout,
                 dprev, downrest>>

\* line 260: the loop is over, the run ends.
DownEnd ==
  /\ dpc = "loop"
  /\ di > Len(ditems)
  /\ dpc' = "done"
  /\ UNCHANGED <<din, downloaded, downfile, ditems, di, drun, dreq, dkilled,
                 dout, dprev, dunpaused, downrest>>

\* The process is killed inside the loop.
DownKilled ==
  /\ dpc \in {"loop", "queued", "added", "pause"}
  /\ dpc' = "done"
  /\ dkilled' = dkilled \cup {drun}
  /\ UNCHANGED <<din, downloaded, downfile, ditems, di, drun, dreq, dout,
                 dprev, dunpaused, downrest>>

\* The process is killed inside save_downloaded, after open(..., 'w') has
\* truncated the file (line 33) and before json.dump has written the list.
DownKilledSaving ==
  /\ dpc = "added"
  /\ downfile' = CutDownFile
  /\ dpc' = "done"
  /\ dkilled' = dkilled \cup {drun}
  /\ UNCHANGED <<din, downloaded, ditems, di, drun, dreq, dout, dprev,
                 dunpaused, downrest>>

\* The inputs: a wishlist of up to MaxWish lines, an album and a track of
\* the same artist and title and another track; up to MaxResp responses of
\* up to MaxFiles files each, returned to every search; min_album_tracks.
DownLines ==
  {WishText(<<"A">>, <<"b">>, TRUE), WishText(<<"A">>, <<"b">>, FALSE),
   WishText(<<"x">>, <<"b">>, FALSE)}
DownFileKinds ==
  {[dir |-> <<"x", "A">>, ext |-> x] : x \in {"mp3", "flac", "wav"}}
DownFileLists == UNION {[1..k -> DownFileKinds] : k \in 0..MaxFiles}
DownInput(lines, lists, min_album_tracks) ==
  [lines |-> lines,
   responses |-> [i \in 1..Len(lists) |-> Response(i, <<lists[i], 1000001, TRUE>>)],
   min_album_tracks |-> min_album_tracks]

DownNext ==
  \/ dpc = "off" /\ \E n \in 0..MaxWish, k \in 0..MaxResp, m \in {MaxFiles} :
                      \E lines \in [1..n -> DownLines], lists \in [1..k -> DownFileLists] :
                        DownFirst(DownInput(lines, lists, m))
  \/ DownAgain
  \/ DownSkip
  \/ DownNoMatch
  \/ DownSearchRaised
  \/ \E ok \in BOOLEAN : DownEnqueue(ok)
  \/ DownAdd
  \/ DownSave
  \/ DownPause
  \/ DownEnd
  \/ DownKilled
  \/ DownKilledSaving

DownSpec == SeqInit /\ [][DownNext]_vars

\* The steps of a run that has started.
DownStep ==
  \/ DownSkip
  \/ DownNoMatch
  \/ DownSearchRaised
  \/ \E ok \in BOOLEAN : DownEnqueue(ok)
  \/ DownAdd
  \/ DownSave
  \/ DownPause
  \/ DownEnd

\* One run that nothing kills.
DownRunNext ==
  \/ dpc = "off" /\ \E n \in 0..MaxWish, k \in 0..MaxResp :
                      \E lines \in [1..n -> DownLines], lists \in [1..k -> DownFileLists] :
                        DownFirst(DownInput(lines, lists, MaxFiles))
  \/ DownStep

\* The run keeps running: every call it makes returns or raises, and the
\* process goes on after it.  At every position of a started run one of
\* the steps below is enabled (at an item that is not marked the search
\* may raise), and each of them leaves the position, so the condition
\* lets no run stop midway and asks for no particular outcome of a search.
DownGoesOn ==
  \/ DownSkip
  \/ DownSearchRaised
  \/ DownAdd
  \/ DownSave
  \/ DownPause
  \/ DownEnd

DownFairSpec == SeqInit /\ [][DownRunNext]_vars /\ WF_vars(DownGoesOn)

\* ===================================================================
\* PersistSpec: the runs of the producers and of the downloader
\* ===================================================================
\* The three programs run side by side, each with its own set and its own
\* file.  The wishlist has three track lines, two of them the same; a search
\* finds nothing or one mp3 file.
PersistWishlist ==
  <<WishText(<<"A">>, <<"b">>, FALSE), WishText(<<"A">>, <<"b">>, FALSE),
    WishText(<<"x">>, <<"b">>, FALSE)>>
PersistLists == {<<>>, <<<<[dir |-> <<"x", "A">>, ext |-> "mp3"]>>>>}

PersistNext ==
  \/ RunStep
  \/ \E lists \in PersistLists : DownFirst(DownInput(PersistWishlist, lists, MaxFiles))
  \/ DownStep

PersistSpec == SeqInit /\ [][PersistNext]_vars

\* ===================================================================
\* Claims
\* ===================================================================
ItemsWith(s, m) == {s[i] : i \in {j \in 1..Len(s) : s[j].mbid = m}}

\* C1: when approve_items(S) has returned on a parsable queue, every mbid of
\* S that was pending is no longer pending and each of its items is in
\* approved exactly as it was in pending; and an approve_items(S) that
\* directly follows an approve_items(S) of the same process returns 0 and
\* leaves the file as it found it.
C1_ApproveMovesOnce ==
  \A p \in Procs :
    (last[p].call.op = "approve" /\ last[p].before.kind = "json") =>
      /\ last[p].after.kind = "json"
      /\ \A m \in last[p].call.mbids \cap MbidsOf(last[p].before.q.pending) :
           /\ m \notin MbidsOf(last[p].after.q.pending)
           /\ ItemsWith(last[p].before.q.pending, m)
                \subseteq Range(last[p].after.q.approved)
      /\ (prev[p].call = last[p].call /\ prev[p].after = last[p].before) =>
           /\ last[p].ret.count = 0
           /\ last[p].after = last[p].before

\* A first approve_items(S) moved an item, and the same process has then
\* run approve_items(S) again on the file the first one left.
C1_Witness ==
  /\ last[1].call.op = "approve"
  /\ prev[1].call = last[1].call
  /\ prev[1].count > 0
  /\ prev[1].after = last[1].before
  /\ last[1].after.q.approved # <<>>

\* C2 as stated: after reject_items(S) on a parsable queue no mbid of S is
\* pending and EVERY mbid of S is in rejected, pending before or not.
C2_RejectRecordsEveryMbid ==
  \A p \in Procs :
    (last[p].call.op = "reject" /\ last[p].before.kind = "json") =>
      \A m \in last[p].call.mbids :
        /\ m \notin MbidsOf(last[p].after.q.pending)
        /\ m \in Range(last[p].after.q.rejected)

\* C2 amended: after reject_items(S) on a parsable queue, every mbid of S
\* that was pending is no longer pending and is in rejected; rejected holds
\* bare identifiers only; and get_rejected_mbids() returns exactly the
\* identifiers of the file's rejected list.
C2_RejectRecordsPendingMbids ==
  \A p \in Procs :
    /\ (last[p].call.op = "reject" /\ last[p].before.kind = "json") =>
         /\ last[p].after.kind = "json"
         /\ \A m \in last[p].call.mbids :
              /\ m \notin MbidsOf(last[p].after.q.pending)
              /\ m \in MbidsOf(last[p].before.q.pending)
                   => m \in Range(last[p].after.q.rejected)
         /\ Range(last[p].after.q.rejected) \subseteq Mbids
    /\ (last[p].call.op = "get_rejected" /\ last[p].before.kind = "json") =>
         /\ last[p].ret.mbids = Range(last[p].before.q.rejected)
         /\ (prev[p].call.op = "reject" /\ prev[p].after = last[p].before
             /\ prev[p].count > 0) =>
              prev[p].call.mbids \cap last[p].ret.mbids # {}

\* A reject_items(S) removed a pending item, and the same process then
\* called get_rejected_mbids() on the file it left.
C2_Witness ==
  /\ last[1].call.op = "get_rejected"
  /\ prev[1].call.op = "reject"
  /\ prev[1].count > 0
  /\ prev[1].after = last[1].before
  /\ prev[1].call.mbids \subseteq last[1].ret.mbids

\* C6: whenever a process opens the queue (locked_queue has read the file
\* and yields; load_queue has returned) and the file content was not
\* parsable, the queue it gets has empty pending, approved and rejected.
C6_DamagedFileOpensEmpty ==
  \A p \in Procs :
    /\ (pc[p] = "body" /\ seen[p].kind \in {"garbage", "blank"}) =>
         Plain(queue[p]) = DEFAULT_QUEUE
    /\ (last[p].call.op = "load" /\ last[p].before.kind \in {"garbage", "blank"}) =>
         last[p].ret.queue = DEFAULT_QUEUE

\* What one call makes of the queue when it runs alone on a parsable file.
SerialApply(q, c) ==
  CASE c.op = "add" -> Plain(add_pending(InMem(q, {}), DEFAULT_QUEUE, c.item).queue)
    [] c.op = "approve" -> Plain(approve_items(InMem(q, {}), DEFAULT_QUEUE, c.mbids).queue)
    [] c.op = "reject" -> Plain(reject_items(InMem(q, {}), DEFAULT_QUEUE, c.mbids).queue)
    [] c.op = "drain" -> [q EXCEPT !.approved = <<>>]
    [] OTHER -> q

\* The orders in which the processes of P can take turns.
RECURSIVE Orders(_)
Orders(P) ==
  IF P = {} THEN {<<>>}
  ELSE UNION {{<<p>> \o o : o \in Orders(P \ {p})} : p \in P}

RECURSIVE SerialRun(_, _)
SerialRun(q, order) ==
  IF order = <<>> THEN q
  ELSE SerialRun(SerialApply(q, last[Head(order)].call), Tail(order))

AllReturned == \A p \in Procs : pc[p] = "idle" /\ ~last[p].ret.raised

\* C3: with m1 and m2 both pending, once one process has run
\* approve_items([m1]) and another reject_items([m2]), both returned 1 and
\* the file has m1 in approved, m2 in rejected and neither in pending.
C3_ApproveAndRejectBothLand ==
  \A p, o \in Procs : \A m1, m2 \in Mbids :
    ( /\ p # o /\ m1 # m2
      /\ start.kind = "json" /\ {m1, m2} \subseteq MbidsOf(start.q.pending)
      /\ pc[p] = "idle" /\ last[p].call = Call("approve", NoItem, {m1})
      /\ pc[o] = "idle" /\ last[o].call = Call("reject", NoItem, {m2}) ) =>
    /\ last[p].ret.count = 1
    /\ last[o].ret.count = 1
    /\ qfile.kind = "json"
    /\ m1 \in MbidsOf(qfile.q.approved)
    /\ m2 \in Range(qfile.q.rejected)
    /\ {m1, m2} \cap MbidsOf(qfile.q.pending) = {}

\* C8: on an existing queue file, once every call has returned, the file
\* is what the calls made one at a time, in some order, would have left.
C8_FinalQueueIsSerial ==
  (start.kind = "json" /\ AllReturned) =>
    \E order \in Orders(Procs) :
      qfile = JsonContent(SerialRun(start.q, order))

\* C9: every step that changes the content of the queue file is taken by a
\* process that holds the exclusive lock on it.
C9_ChangesUnderExclusiveLock ==
  [][\A p \in Procs :
       (pc'[p] # pc[p] /\ qfile' # qfile) => qlock[p] = "ex"]_vars

\* C10: no process holds the queue-file lock and the wishlist-file lock at
\* the same time.
C10_NeverBothLocks ==
  \A p \in Procs : ~(qlock[p] # "none" /\ wlock[p] # "none")

\* C7: a process that has left its locked_queue or locked_wishlist block,
\* normally or by an exception, holds neither lock; and a process waiting in
\* flock for the queue file or the wishlist file eventually gets the lock.
C7_LocksReleasedOnEveryExit ==
  /\ [](\A p \in Procs :
          pc[p] = "idle" => (qlock[p] = "none" /\ wlock[p] = "none"))
  /\ \A p \in Procs : (pc[p] = "open") ~> (pc[p] = "read")
  /\ \A p \in Procs : (pc[p] = "w_open") ~> (pc[p] = "w_body")

\* A queue block was left by an exception, and the other process, which
\* wanted the queue lock, holds it now.
C7_Witness ==
  /\ pc[1] = "idle" /\ last[1].ret.raised /\ last[1].call.op = "drain"
  /\ qlock[1] = "none"
  /\ pc[2] = "read" /\ qlock[2] = "ex"

\* C4: in every state of the producers' runs, the API's requests and the
\* drains, no mbid is both in pending and in approved of the queue file.
C4_PendingApprovedDisjoint ==
  MbidsOf(qfile.q.pending) \cap MbidsOf(qfile.q.approved) = {}

\* C5: no producer calls add_pending for an mbid that is in the queue file's
\* rejected list when the call is made.  (In these runs only a producer's
\* add_pending makes pending longer, and the new entry is its last.)
C5_NoAddOfRejected ==
  [][Len(qfile'.q.pending) > Len(qfile.q.pending) =>
       qfile'.q.pending[Len(qfile'.q.pending)].mbid \notin Range(qfile.q.rejected)]_vars

\* C11: an entry (artist, title, is_album) appended to an empty wishlist
\* by append_to_wishlist and parsed back by parse_wishlist comes back as
\* exactly one entry with the same artist, title and is_album.
C11_AppendParseRoundTrip ==
  (tpc = "parsed" /\ top = "append") =>
    /\ Len(tout) = 1
    /\ tout[1].artist = tin[1].artist
    /\ tout[1].title = tin[1].title
    /\ tout[1].is_album = tin[1].is_album

\* C12: while parse_wishlist reads the wishlist no process holds the
\* exclusive lock on it (the reader holds a shared lock for the whole read);
\* and a reader that ran while a batch was appended, the batch having
\* completed normally, has read none of the batch's lines or all of them.
C12_ReaderSeesWholeBatch ==
  /\ rpc = "reading" => \A p \in Procs : wlock[p] # "ex"
  /\ (rpc = "done" /\ pc[1] = "idle" /\ last[1].call.op = "drain"
      /\ ~last[1].ret.raised) =>
       Len(rseen) \in {0, Len(process_approved_to_wishlist(start.q.approved))}

\* The entries of a batch that have both an artist and a title.
Complete(items) == SelectSeq(items, LAMBDA i : i.artist # <<>> /\ i.title # <<>>)

\* C13: a wishlist write never writes a line for an entry whose artist or
\* title is empty: append_to_wishlist writes nothing for it, and
\* process_approved_to_wishlist skips it, does not count it, and writes the
\* other entries of the batch in order.
C13_NoLineWithoutArtistOrTitle ==
  tpc \in {"written", "parsed"} =>
    /\ tfile = [k \in 1..Len(Complete(tin)) |->
                 WishText(Complete(tin)[k].artist, Complete(tin)[k].title,
                          Complete(tin)[k].is_album)]
    /\ top = "batch" => tcount = Len(Complete(tin))

\* C14: a key enters a producer's persisted dedup set only from the run's
\* in-memory set, and it enters that set only in a step that also emits its
\* candidate, or after a lookup that deliberately gave no result: for
\* catalog_discovery after the artist's albums have been handled or when the
\* artist has no albums, for lb_fetch in the step that appends the entry
\* with that mbid to pending.
C14_DedupOnlyAfterEmission ==
  [][/\ \A prod \in Producers :
          dedupfile'[prod] \subseteq dedupfile[prod] \cup dedup[prod]
     /\ ppc'["cat"] = "save" =>
          \A k \in dedup'["cat"] \ dedup["cat"] :
            ppc["cat"] = "album" \/ AlbumsOf(k) = <<>>
     /\ ppc'["lb"] = "save" =>
          \A k \in dedup'["lb"] \ dedup["lb"] :
            /\ Len(qfile'.q.pending) = Len(qfile.q.pending) + 1
            /\ qfile'.q.pending[Len(qfile'.q.pending)].mbid = k]_vars

\* C15: when lb_fetch in album mode calls add_pending (the step that appends
\* a listenbrainz album entry to pending), the entry's mbid is not among the
\* pending items of the queue file at that time.
C15_AlbumModeAddsNoPendingMbid ==
  [][\A e \in {AlbumEntry(AlbumOf(r)) : r \in Range(Recs)} :
       qfile'.q.pending = Append(qfile.q.pending, e) =>
         e.mbid \notin MbidsOf(qfile.q.pending)]_vars

\* The qualifying directories of the call, in evaluation order.
Qualifying == Candidates(sin.responses, sin.artist, sin.album, sin.min_files)

\* C16: search_album returns none exactly when no directory of any response
\* qualifies, and otherwise a qualifying directory whose score is at least
\* the score of every qualifying directory of every response.
C16_ReturnsMaximumOrNone ==
  spc = "returned" =>
    /\ sout = NoMatch <=> Qualifying = <<>>
    /\ sout # NoMatch =>
         /\ sout \in Range(Qualifying)
         /\ \A c \in Range(Qualifying) : sout.score >= c.score

\* The highest score in a sequence of scored directories, and the first and
\* the last position in evaluation order that has it.
MaxScore(q) == CHOOSE m \in {q[i].score : i \in 1..Len(q)} :
                 \A i \in 1..Len(q) : q[i].score <= m
AtMax(q) == LET m == MaxScore(q) IN {i \in 1..Len(q) : q[i].score = m}
FirstOf(I) == CHOOSE i \in I : \A j \in I : i <= j
LastOf(I) == CHOOSE i \in I : \A j \in I : i >= j

\* C17 as stated: when several qualifying directories share the maximum
\* score, search_album returns the one that was evaluated last.
C17_TieGoesToLast ==
  spc = "returned" =>
    LET q == Qualifying IN
    (q # <<>> /\ MaxScore(q) > 0) => sout = q[LastOf(AtMax(q))]

\* C17 amended: when several qualifying directories share the maximum score
\* (a score above 0), search_album returns the one that was evaluated first
\* in iteration order over the responses and their directories.
C17_TieGoesToFirst ==
  spc = "returned" =>
    LET q == Qualifying IN
    (q # <<>> /\ MaxScore(q) > 0) => sout = q[FirstOf(AtMax(q))]

\* Two directories of different peers share the maximum score, and the
\* first peer's directory was returned.
C17_Witness ==
  /\ spc = "returned"
  /\ sout.username = "u1"
  /\ LET q == Qualifying IN
     /\ Len(q) >= 2
     /\ MaxScore(q) > 0
     /\ Cardinality(AtMax(q)) >= 2
     /\ q[LastOf(AtMax(q))].username = "u2"

\* The response of the returned candidate's peer.
Chosen == CHOOSE r \in Range(sin.responses) : r.username = sout.username

\* The audio files of the returned directory, counted from the response.
AudioIn(r, dir_path, exts) ==
  Cardinality({i \in 1..Len(r.files) :
                 r.files[i].dir = dir_path /\ r.files[i].ext \in exts})

\* The example of the specification: five FLAC files in a directory named
\* after artist and album, from a slow peer without a free slot; three MP3
\* files in an unrelated directory.
ExampleResponses ==
  <<[username |-> "u1", uploadSpeed |-> 0, hasFreeUploadSlot |-> FALSE,
     files |-> [i \in 1..5 |-> [dir |-> <<"a", "b">>, ext |-> "flac"]]],
    [username |-> "u2", uploadSpeed |-> 0, hasFreeUploadSlot |-> FALSE,
     files |-> [i \in 1..3 |-> [dir |-> <<"x">>, ext |-> "mp3"]]]>>

\* C18: the score of the candidate search_album returns is 10 x its audio
\* files + 5 x its FLAC files + 50 if the directory path contains the artist
\* (case-insensitively) + 50 if it contains the title + 20 if the peer's
\* upload speed is above 1,000,000 + 30 if the peer has a free upload slot;
\* the specification's example scores 175 and 30 and the first is chosen.
C18_ScoreFormula ==
  /\ (spc = "returned" /\ sout # NoMatch) =>
        LET r == Chosen IN
        sout.score =
          10 * AudioIn(r, sout.directory, AlbumExts)
          + 5 * AudioIn(r, sout.directory, {"flac"})
          + (IF ContainsLower(sout.directory, sin.artist) THEN 50 ELSE 0)
          + (IF ContainsLower(sout.directory, sin.album) THEN 50 ELSE 0)
          + (IF r.uploadSpeed > 1000000 THEN 20 ELSE 0)
          + (IF r.hasFreeUploadSlot THEN 30 ELSE 0)
  /\ spc = "off" =>
        /\ search_album(<<"A">>, <<"b">>, 3, ExampleResponses).score = 175
        /\ search_album(<<"A">>, <<"b">>, 3, ExampleResponses).username = "u1"
        /\ Candidates(ExampleResponses, <<"A">>, <<"b">>, 3)[2].score = 30

\* A directory was returned whose peer's upload speed is exactly 1,000,000
\* and has a free slot, with a FLAC and an MP3 file, named after the artist
\* only: 20 + 5 + 50 + 30.
C18_Witness ==
  /\ spc = "returned"
  /\ sout # NoMatch
  /\ Chosen.uploadSpeed = 1000000
  /\ Chosen.hasFreeUploadSlot
  /\ sout.directory = <<"x", "A">>
  /\ sout.score = 105

\* A response has a file the track branch may ask for.
HasTrackFile(response) ==
  \E j \in 1..Len(response.files) :
    response.files[j].ext \in {"mp3", "flac", "m4a", "ogg"}

\* The first file of a response with one of the four extensions.
FirstTrackFile(response) ==
  LET J == {j \in 1..Len(response.files) :
              response.files[j].ext \in {"mp3", "flac", "m4a", "ogg"}} IN
  response.files[FirstOf(J)]

\* C19: every transfer request made for a track line goes to the first
\* response, in response order, that has a file with extension mp3, flac,
\* m4a or ogg, and asks for that response's first such file only; a run
\* makes at most one request for the line, whether the request was accepted
\* or failed.
C19_TrackFirstMatch ==
  \A k \in 1..Len(dreq) :
    LET q == dreq[k]
        I == {i \in 1..Len(din.responses) : HasTrackFile(din.responses[i])} IN
    ~ditems[q.line].is_album =>
      /\ I # {}
      /\ q.username = din.responses[FirstOf(I)].username
      /\ q.files = <<FirstTrackFile(din.responses[FirstOf(I)])>>
      /\ \A l \in 1..Len(dreq) :
           dreq[l].run = q.run /\ dreq[l].line = q.line => l = k

\* A run has ended after its request for a track line failed: two responses
\* had a qualifying file, the first of them two such files after one that
\* does not qualify in the other.
C19_Witness ==
  /\ dpc = "done"
  /\ dkilled = {}
  /\ Len(din.responses) = 2
  /\ din.responses[1].files = <<[dir |-> <<"x", "A">>, ext |-> "mp3"],
                                [dir |-> <<"x", "A">>, ext |-> "flac"]>>
  /\ HasTrackFile(din.responses[2])
  /\ \E k \in 1..Len(dreq) :
       /\ ~ditems[dreq[k].line].is_album
       /\ ~dreq[k].ok
       /\ dreq[k].run = drun

Decoded(text) ==
  LET stripped == Strip(text)
      body == IF StartsWith(stripped, <<"a", ":">>)
              THEN SubSeq(stripped, 3, Len(stripped)) ELSE stripped
      inner == IF StartsWith(body, Quote) /\ EndsWith(body, Quote)
               THEN SubSeq(body, 2, Len(body) - 1) ELSE body IN
  Replace(inner, <<"\\", "\"">>, Quote)

\* Where the first ' - ' of a decoded line starts, 0 if it has none, and
\* the two sides of it.
SeparatorAt(line) ==
  LET I == {i \in 1..(Len(line) - 2) :
              line[i] = " " /\ line[i + 1] = "-" /\ line[i + 2] = " "} IN
  IF I = {} THEN 0 ELSE FirstOf(I)
Before(line) == SubSeq(line, 1, SeparatorAt(line) - 1)
After(line) == SubSeq(line, SeparatorAt(line) + 3, Len(line))

\* The artists and titles expected of the lines, one pair for each line
\* whose decoded text contains the separator, in the order of the lines;
\* trim says whether surrounding whitespace is removed from the two sides.
RECURSIVE Pairs(_, _)
Pairs(lines, trim) ==
  IF lines = <<>> THEN <<>>
  ELSE LET line == Decoded(Head(lines)) IN
       (IF SeparatorAt(line) = 0 THEN <<>>
        ELSE <<[artist |-> IF trim THEN Strip(Before(line)) ELSE Before(line),
                title |-> IF trim THEN Strip(After(line)) ELSE After(line)]>>)
         \o Pairs(Tail(lines), trim)

\* The artists and titles parse_wishlist returned.
Parsed == [k \in 1..Len(tout) |-> [artist |-> tout[k].artist, title |-> tout[k].title]]

C27_EnoughAudioFilesOfOneDirectory ==
  (spc = "returned" /\ sout # NoMatch) =>
    \E i \in 1..Len(sin.responses) :
      LET files == sin.responses[i].files
          J == {j \in 1..Len(files) :
                  /\ files[j].dir = sout.directory
                  /\ files[j].ext \in {"mp3", "flac", "m4a", "ogg", "wav"}} IN
      /\ sin.responses[i].username = sout.username
      /\ Cardinality(J) >= sin.min_files
      /\ Len(sout.files) = Cardinality(J)
      /\ \A k \in 1..Len(sout.files) :
           /\ sout.files[k].dir = sout.directory
           /\ sout.files[k].ext \in {"mp3", "flac", "m4a", "ogg", "wav"}

\* search_album was asked for two files and returned the directory with two
\* audio files of the second peer, although the first peer's directory, one
\* audio file and a picture, carries the artist's name in its path.
C27_Witness ==
  /\ spc = "returned"
  /\ sin.min_files = 2
  /\ Len(sin.responses) = 2
  /\ sin.responses[1].files = <<[dir |-> <<"x", "A">>, ext |-> "flac"],
                                [dir |-> <<"x", "A">>, ext |-> "jpg"]>>
  /\ sout.username = "u2"
  /\ sout.directory = <<"x">>
  /\ Len(sout.files) = 2

\* C21: two lines of the wishlist have the same key in the downloaded set
\* if and only if they are the same text.
C21_KeyIsEncodedLine ==
  (dpc # "off" /\ Len(ditems) = Len(din.lines)) =>
    \A i, j \in 1..Len(ditems) :
      ditems[i].raw = ditems[j].raw <=> din.lines[i] = din.lines[j]

\* The outcomes of a line that leave it without an accepted request.
Unmatched == {"nomatch", "raised", "failed"}

\* A line of the same text as line i had a request accepted in this run.
SameLineQueued(i) ==
  \E j \in 1..Len(ditems) :
    din.lines[j] = din.lines[i] /\ dout[j] \in {"queued", "downloaded"}

\* C22: whatever the searches and the enqueues of a run do, the lines are
\* handled in the order of the wishlist, and the run ends with every line
\* handled: skipped because its key is in downloaded, or searched for.
C22_EveryLineProcessed ==
  /\ [](\A i, j \in 1..Len(dout) : (i < j /\ dout[j] # "pending") => dout[i] # "pending")
  /\ [](dpc = "done" => \A i \in 1..Len(dout) : dout[i] # "pending")
  /\ (dpc = "loop" ~> dpc = "done")

\* A run ended whose first line's search raised and whose second line's
\* request failed.
C22_Witness ==
  /\ dpc = "done"
  /\ Len(dout) = 2
  /\ dout[1] = "raised"
  /\ dout[2] = "failed"

\* C23: within a run a key enters downloaded, and downloaded.json, only in
\* the steps that follow an accepted request for the line the loop is at,
\* and it is that line's key; and a line whose search found nothing or
\* raised, or whose request failed, has its key in downloaded only if the
\* same line, at another place of the wishlist, had a request accepted.
C23_MarkedOnlyAfterEnqueue ==
  /\ [][drun' = drun =>
          /\ downloaded' # downloaded =>
                /\ dout[di] = "queued"
                /\ downloaded' = downloaded \cup {ditems[di].raw}
          /\ load_downloaded(downfile') \ load_downloaded(downfile) # {} =>
                /\ dout[di] = "queued"
                /\ load_downloaded(downfile') \subseteq
                     load_downloaded(downfile) \cup {ditems[di].raw}]_vars
  /\ [](dpc \notin {"off", "done"} =>
          \A i \in 1..Len(dout) :
            (dout[i] \in Unmatched /\ ditems[i].raw \in downloaded) => SameLineQueued(i))

C28_NoMatchIsRetried ==
  /\ dpc = "done" =>
       \A i \in 1..Len(dout) :
         (dout[i] \in Unmatched /\ ~SameLineQueued(i)) =>
           ditems[i].raw \notin load_downloaded(downfile)
  /\ (drun = 2 /\ 1 \notin dkilled) =>
       \A i \in 1..Len(dout) :
         LET again == \E j \in 1..Len(dprev) :
                        din.lines[j] = din.lines[i] /\ dprev[j] = "downloaded" IN
         (dprev[i] \in Unmatched /\ ~again /\ ~SameLineQueued(i)) =>
           dout[i] # "skipped"

\* C29: in a run no search is made while an earlier search of the run has
\* not been followed by the pause of the loop.
C29_PauseBetweenSearches ==
  dunpaused <= 1

\* The second line's search has raised, after the pause that followed the
\* failed request of the first line.
C29_Witness ==
  /\ dpc = "pause"
  /\ di = 2
  /\ dout[1] = "failed"
  /\ dout[2] = "raised"
  /\ dunpaused = 1
\* C25: when approve_all has returned, the queue file, the wishlist and the
\* returned count are those of approve applied to the mbids of all the items
\* that were pending: every one of them is in approved and none is pending,
\* and the count is their number.
C25_ApproveAllMovesEveryPending ==
  (napi = 1 /\ apc = "idle") =>
    LET before == Opened(start)
        r == approve_items(before, DEFAULT_QUEUE, MbidsOf(before.pending)) IN
    /\ Opened(qfile).pending = <<>>
    /\ Opened(qfile).approved = before.approved \o before.pending
    /\ aret = Len(before.pending)
    /\ qfile = Written(r.queue)
    /\ wfile = process_approved_to_wishlist(before.pending)
\* C24: when a run of a producer has finished, the items that were in
\* approved when it started are no longer in approved and their lines are in
\* the wishlist.
C24_RunDrainsApproved ==
  \A prod \in Producers :
    runs[prod] >= 1 =>
      LET lines == process_approved_to_wishlist(Opened(start).approved) IN
      /\ Opened(qfile).approved = <<>>
      /\ \A k \in 1..Len(lines) : lines[k] \in Range(wfile)

\* C31: QueueManager.approve writes a wishlist line for an item only if its
\* own approve_items call moved that item from pending to approved: when
\* approve_items returns a positive count, every item the request is about
\* to write is one that was pending in the file approve_items read, whatever
\* other processes approved, rejected or added in between.
C31_WritesOnlyWhatItMoved ==
  [][(apc = "approve" /\ apc' = "wish") =>
       \A i \in 1..Len(to_approve) :
         to_approve[i] \in Range(Opened(qfile).pending)]_vars

\* C32: over the approve requests of the UI and the drains of the producers,
\* each approved item produces at most one line of the wishlist: the
\* wishlist never holds more lines than items were approved, those the queue
\* file started with in approved and those the request moved there.
C32_OneLinePerApprovedItem ==
  Len(wfile) <= Len(Opened(start).approved) + aret

\* C33: when the queue file does not exist and every process calls
\* add_pending, then once all the calls have returned the file holds the
\* entry of each of them in pending, under every interleaving.
C33_MissingFileKeepsBothEntries ==
  (/\ start = NoFile
   /\ AllReturned
   /\ \A p \in Procs : last[p].call.op = "add")
    => /\ qfile.kind = "json"
       /\ Len(qfile.q.pending) = NumProcs
       /\ \A p \in Procs : last[p].call.item \in Range(qfile.q.pending)

\* C34: if the body of a write-mode locked_queue block raises, the exception
\* reaches the caller, and the queue file is what it was before the block was
\* entered: when the drain whose body raised is the only call made so far,
\* the file is the one the run started with.
Alone(p) ==
  /\ prev[p].call = NoCall
  /\ \A o \in Procs \ {p} : pc[o] = "idle" /\ done[o] = 0

C34_RaisedBodyWritesNothing ==
  \A p \in Procs :
    (pc[p] = "idle" /\ raised[p] /\ last[p].call.op = "drain") =>
      /\ last[p].ret.raised
      /\ Alone(p) => qfile = start

C34_Witness ==
  \E p \in Procs :
    /\ pc[p] = "idle" /\ raised[p] /\ last[p].call.op = "drain"
    /\ last[p].ret.raised
    /\ Alone(p)
    /\ Opened(start).approved # <<>>

\* The processes whose lock keeps p waiting in flock: p asks for the queue
\* lock (line 58 of queue.py) or for the wishlist lock (line 56 of
\* wishlist.py) and o holds a lock on that file that excludes p's.
Blockers(p) ==
  {o \in Procs \ {p} :
     \/ /\ pc[p] = "open"
        /\ IF call[p].op \in WriteOps THEN qlock[o] # "none" ELSE qlock[o] = "ex"
     \/ /\ pc[p] = "w_open"
        /\ wlock[o] # "none"}

\* No set of processes in which each waits for a lock another of them holds.
NoWaitCycle ==
  \A S \in (SUBSET Procs) \ {{}} : \E p \in S : Blockers(p) \cap S = {}

\* Whoever keeps a process waiting is inside a call of its own, which it
\* will leave: no lock is held by a process that has returned.
HoldersRun ==
  \A p \in Procs : \A o \in Blockers(p) : pc[o] # "idle"

\* C35: the system is deadlock-free: in no reachable state do processes wait
\* each for a lock another of them holds, a lock that keeps a process waiting
\* is held by a process still running its call, and, the processes being
\* scheduled, every process that asks for the queue lock or for the wishlist
\* lock eventually holds it.
C35_DeadlockFree ==
  /\ []NoWaitCycle
  /\ []HoldersRun
  /\ \A p \in Procs : (pc[p] = "open") ~> (qlock[p] # "none")
  /\ \A p \in Procs : (pc[p] = "w_open") ~> (wlock[p] = "ex")

\* A drain holds the queue lock and waits for the wishlist lock, which the
\* other process holds for its append.
C35_Witness ==
  /\ pc[1] = "w_open" /\ qlock[1] = "ex" /\ call[1].op = "drain"
  /\ wlock[2] = "ex" /\ call[2].op = "append"
  /\ Blockers(1) = {2}

\* The items of s whose mbid is not in S, in their order.
NonMatching(s, S) == SelectSeq(s, LAMBDA x : x.mbid \notin S)

\* What call c must leave alone, b being the queue before and a after.
Frame(b, a, c) ==
  /\ c.op = "approve" => a.rejected = b.rejected
  /\ c.op = "reject" => a.approved = b.approved
  /\ c.op = "add" =>
       /\ a.approved = b.approved
       /\ a.rejected = b.rejected
       /\ Len(a.pending) >= Len(b.pending)
       /\ SubSeq(a.pending, 1, Len(b.pending)) = b.pending
  /\ c.op \in {"approve", "reject"} =>
       NonMatching(a.pending, c.mbids) = NonMatching(b.pending, c.mbids)

FrameOps == {"add", "approve", "reject"}

\* C36: approve_items leaves rejected unchanged, reject_items leaves approved
\* unchanged, add_pending leaves approved and rejected unchanged, and each
\* leaves the pending items it does not match in place, payload and order:
\* from the parsable file a call read to the file it left, and, whatever the
\* file held, from the queue the block was given to the queue it hands back.
C36_FrameEffects ==
  /\ [](\A p \in Procs :
          (last[p].call.op \in FrameOps /\ last[p].before.kind = "json") =>
            /\ last[p].after.kind = "json"
            /\ Frame(last[p].before.q, last[p].after.q, last[p].call))
  /\ [][\A p \in Procs :
          (pc[p] = "body" /\ pc'[p] = "writeback" /\ call[p].op \in FrameOps) =>
            Frame(queue[p], queue'[p], call[p])]_vars

\* After an add_pending, reject_items has removed an item from a parsable
\* queue whose approved list held an item of a rejected identifier.
C36_Witness ==
  /\ last[1].call.op = "reject"
  /\ last[1].before.kind = "json"
  /\ last[1].ret.count > 0
  /\ last[1].before.q.approved # <<>>
  /\ MbidsOf(last[1].before.q.approved) \cap last[1].call.mbids # {}
  /\ prev[1].call.op = "add"

NoDuplicate(s) == \A i, j \in 1..Len(s) : i # j => s[i] # s[j]

RejectedOps == {"add", "approve", "reject", "drain"}

\* C37: over any sequence of add_pending, approve, reject and drain calls on a
\* parsable queue file, rejected never shrinks and is duplicate-free once a
\* reject has run: every call leaves in rejected what it found there, a
\* reject leaves the list without duplicates, every call keeps a list that
\* has none without any, and the file never loses an identifier between two
\* of its parsable contents.
C37_RejectedOnlyGrows ==
  /\ [](\A p \in Procs :
          (last[p].call.op \in RejectedOps /\ last[p].before.kind = "json") =>
            /\ last[p].after.kind = "json"
            /\ Range(last[p].before.q.rejected) \subseteq Range(last[p].after.q.rejected)
            /\ last[p].call.op = "reject" => NoDuplicate(last[p].after.q.rejected)
            /\ NoDuplicate(last[p].before.q.rejected) =>
                 NoDuplicate(last[p].after.q.rejected))
  /\ [][(qfile.kind = "json" /\ qfile'.kind = "json") =>
          Range(qfile.q.rejected) \subseteq Range(qfile'.q.rejected)]_vars

\* A reject has put an identifier in rejected, and the drain that followed
\* found it there and left it there.
C37_Witness ==
  /\ pc[1] = "idle"
  /\ last[1].call.op = "drain"
  /\ prev[1].call.op = "reject" /\ prev[1].count > 0
  /\ prev[1].after = last[1].before
  /\ last[1].ret.count > 0
  /\ last[1].after.q.rejected # <<>>

\* How many times x occurs in s.
CountIn(s, x) == Cardinality({i \in 1..Len(s) : s[i] = x})

\* What approve_items and reject_items must conserve, b being the queue
\* before, a the queue after and n the count returned.
Conserved(b, a, c, n) ==
  /\ n = Len(b.pending) - Len(a.pending)
  /\ MbidsOf(a.pending) \cap c.mbids = {}
  /\ c.op = "approve" =>
       \A x \in Range(b.pending) \cup Range(b.approved)
                \cup Range(a.pending) \cup Range(a.approved) :
         CountIn(b.pending, x) + CountIn(b.approved, x)
           = CountIn(a.pending, x) + CountIn(a.approved, x)

\* C38: approve_items neither creates nor destroys items (the multiset of
\* the items of pending and approved together is the same before and after),
\* the count it returns is the number of items that left pending, every
\* pending item of an approved mbid is moved, duplicates included; and the
\* count reject_items returns is the number of items it removed from pending.
\* From the parsable file a call read to the file it left, and, whatever the
\* file held, from the queue the block was given to the queue it hands back.
C38_ApproveConservesItems ==
  /\ [](\A p \in Procs :
          (last[p].call.op \in {"approve", "reject"} /\ last[p].before.kind = "json") =>
            /\ last[p].after.kind = "json"
            /\ Conserved(last[p].before.q, last[p].after.q, last[p].call,
                         last[p].ret.count))
  /\ [][\A p \in Procs :
          (/\ pc[p] = "body" /\ pc'[p] = "writeback"
           /\ call[p].op \in {"approve", "reject"}) =>
            Conserved(queue[p], queue'[p], call[p], ret'[p].count)]_vars

\* approve_items has moved two pending items of the same mbid and returned 2.
C38_Witness ==
  /\ last[1].call.op = "approve"
  /\ last[1].before.kind = "json"
  /\ last[1].ret.count = 2
  /\ Cardinality(MbidsOf(last[1].before.q.pending)) = 1
  /\ Len(last[1].after.q.approved) = 2

\* The queue a file content stands for: what it parses to, or the empty
\* queue when it does not parse.
QueueIn(content) == IF content.kind = "json" THEN content.q ELSE DEFAULT_QUEUE

\* C39: a queue obtained in read mode is a snapshot: a read-mode block leaves
\* the file as it found it, whatever its caller did to the value, and what a
\* caller did to the value of an earlier block does not show in a later
\* read: load_queue returns the queue the file holds.
C39_ReadModeIsSnapshot ==
  \A p \in Procs :
    /\ last[p].call.op \in ReadOps \cup {"change"} =>
         last[p].after = last[p].before
    /\ last[p].call.op = "load" =>
         last[p].ret.queue = QueueIn(last[p].before)

\* The credentials the configured type asks for: the configured username and
\* password, the configured key, a user named by the proxy; with no type
\* set, none.
ValidCredentials(request, auth_settings) ==
  CASE auth_settings.type = "basic" ->
         /\ request.authorization.scheme = "Basic"
         /\ request.authorization.decodes
         /\ request.authorization.username = auth_settings.username
         /\ request.authorization.password = auth_settings.password
    [] auth_settings.type = "api_key" ->
         \/ /\ request.authorization.scheme = "Bearer"
            /\ request.authorization.token = auth_settings.api_key
         \/ request.x_api_key # "" /\ request.x_api_key = auth_settings.api_key
    [] auth_settings.type = "proxy" -> request.remote_user # ""
    [] OTHER -> FALSE

\* C40: when authentication is enabled, whatever type is configured (basic,
\* api_key, proxy, or none), a request whose path starts with /api/ and that
\* carries no valid credentials is answered 401 and no handler runs.
C40_ApiNeedsCredentials ==
  (/\ authpc = "answered"
   /\ asettings.enabled
   /\ StartsWithApi(areq.path)
   /\ ~ValidCredentials(areq, asettings))
    => aresp = [status |-> 401, handler |-> "none"]

====
